---------------------------- MODULE Spec2Model ----------------------------
(***************************************************************************)
(* gps-led-clock: the EEPROM wear-leveling store (EEPROMWearLeveling.cpp,  *)
(* EEPROMWearLeveling.h) and the GPS stability filter                      *)
(* (GpsStabilityFilter.cpp, GpsStabilityFilter.h).  The EEPROM is modelled *)
(* byte by byte; a uint16_t is kept modulo 2^16 and stored low byte first, *)
(* as avr-gcc does.  The samples of the filter are whole numbers that are  *)
(* floats; a float addition rounds its sum to 24 significant bits, and a   *)
(* float result is kept as the fraction <<numerator, denominator>> that    *)
(* the division rounds (FloatQuotient is the rounded quotient).  Of the    *)
(* sketch (main.cpp, config.h) the module has the time format and the      *)
(* power-cycle detection of setup(), over the EEPROM cells 0 .. 4, and the *)
(* detection of the GPS baud rate, whose constants are declared outside    *)
(* the sources at hand and are stand-ins here.  The rain effect            *)
(* (RainEffect.h, RainEffect.cpp) is followed under calls of initialize()  *)
(* and update() while millis() advances in ticks.                          *)
(***************************************************************************)
EXTENDS Integers, Sequences, FiniteSets, TLC

\* ------------------------------------------------------------------------
\* Configuration (EEPROMWearLeveling.h)
\* ------------------------------------------------------------------------
WL_NUM_SLOTS == 16
WL_SEQUENCE_SIZE == 2
WL_INVALID_SEQUENCE == 0
WL_TIME_FORMAT_START_ADDR == 10
WL_POWER_CYCLE_START_ADDR == 60
WL_TIME_FORMAT_DATA_SIZE == 1
WL_POWER_CYCLE_DATA_SIZE == 4
WL_TIME_FORMAT_SLOT_SIZE == WL_SEQUENCE_SIZE + WL_TIME_FORMAT_DATA_SIZE
WL_POWER_CYCLE_SLOT_SIZE == WL_SEQUENCE_SIZE + WL_POWER_CYCLE_DATA_SIZE

\* enum WLDataType
WL_TIME_FORMAT == 0
WL_POWER_CYCLE == 1
WLDataType == {WL_TIME_FORMAT, WL_POWER_CYCLE}

\* const WLSlotInfo EEPROMWearLeveling::slotConfig[2]
slotConfig ==
  [dataType \in WLDataType |->
     IF dataType = WL_TIME_FORMAT
       THEN [startAddr |-> WL_TIME_FORMAT_START_ADDR,
             slotSize  |-> WL_TIME_FORMAT_SLOT_SIZE,
             dataSize  |-> WL_TIME_FORMAT_DATA_SIZE]
       ELSE [startAddr |-> WL_POWER_CYCLE_START_ADDR,
             slotSize  |-> WL_POWER_CYCLE_SLOT_SIZE,
             dataSize  |-> WL_POWER_CYCLE_DATA_SIZE]]

\* Widths of the integer types involved.
UINT8_MOD == 256
UINT16_MOD == 65536
\* The erased pattern of a uint16_t, 0xFFFF.
ERASED_SEQUENCE == 65535
\* The two thresholds of the wraparound heuristic, 0xF000 and 0x1000.
WRAP_HIGH == 61440
WRAP_LOW == 4096
\* An unsigned long (32 bits on AVR) is the pair <<high word, low word>> of
\* its 16-bit halves.  The ceiling of readPowerCycleCount, 0xFFFFFF00UL:
CEILING_HIGH_WORD == 65535
CEILING_LOW_WORD == 65280
POWER_CYCLE_CEILING == <<CEILING_HIGH_WORD, CEILING_LOW_WORD>>

\* The EEPROM cells the store can touch: addresses 0 .. 155.
EEPROM_END == WL_POWER_CYCLE_START_ADDR + WL_NUM_SLOTS * WL_POWER_CYCLE_SLOT_SIZE
Addresses == 0 .. (EEPROM_END - 1)
Slots == 0 .. (WL_NUM_SLOTS - 1)

\* ------------------------------------------------------------------------
\* Bounds of the model
\* ------------------------------------------------------------------------
\* Slot writes performed in one behaviour of Spec.
MaxWrites == 2
\* Slot writes performed in one behaviour of SpecLong.
MaxLongWrites == 17
\* The worn initial storages are those left by 65534 - PreWrap .. 65534 writes.
PreWrap == 1
\* Slots overwritten from outside the store in one behaviour of SpecFound.
MaxDamage == 1
\* Samples update() stores in one behaviour of SpecFilter.
MaxUpdates == 17
\* Irregular events of the GPS feed in one behaviour of SpecFilter.
MaxOdd == 1
\* Slot writes cut short by a loss of power in one behaviour of SpecTorn.
MaxTears == 1
\* Times the sketch is powered on in one behaviour of SpecBoot.
MaxBoots == 8
\* The cyclic feeds of SpecSort take their values from a range of
\* 2 * MaxSortValue + 1 whole numbers.
MaxSortValue == 2
\* The longest feed of SpecMean.
MaxMeanLen == 6
\* Times the sketch is powered on in one behaviour of SpecBaud.
MaxSessions == 2
\* Ticks of millis() that make up the test duration of one baud rate.
TestTicks == 2
\* Valid sentences the GPS object decodes in one call of detectGpsBaudRate().
MaxSentences == 2
\* Ticks of millis() a rain effect is followed for.
MaxRainTicks == 12
\* ledMatrix.height(): the rows a raindrop falls through (8 on the display of
\* the clock).
MatrixHeight == 2
\* The last column a raindrop is spawned in.
MaxColumn == 1

VARIABLES
  eeprom,        \* [Addresses -> 0..255]: the EEPROM cells
  nextSequence,  \* uint16_t nextSequence[2]
  currentSlot,   \* uint8_t currentSlot[2]
  begun,         \* begin() has run on the current instance
  lastOp,        \* the call made by the last step, its argument and result
  hist           \* history of the run (see HistInit)

VARIABLES
  latReadings,   \* float latReadings[GPS_FILTER_WINDOW_SIZE]
  lonReadings,   \* float lonReadings[GPS_FILTER_WINDOW_SIZE]
  altReadings,   \* float altReadings[GPS_FILTER_WINDOW_SIZE]
  currentIndex,  \* uint8_t currentIndex
  totalReadings, \* uint8_t totalReadings
  gpsModule,     \* TinyGPSPlus& gpsModule: what the GPS object reports now
  filterOp,      \* the call the last step made to the filter and its result
  fhist          \* history of the filter's run (see FilterHistInit)

VARIABLES
  is24Hour,      \* bool is24Hour
  pc,            \* where the sketch is: "off", "startup" (setup() has passed
                 \* checkPowerCycles() and shows the animation or the welcome
                 \* message), "running" (the welcome message has finished)
  bhist          \* history of the boots (see BootHistInit)

VARIABLES
  gpsBaudDetectionComplete,  \* bool gpsBaudDetectionComplete
  currentGpsBaudRate,        \* unsigned long currentGpsBaudRate
  currentBaudRateIndex,      \* int currentBaudRateIndex
  baudTestStarted,           \* baudTestStartTime != 0
  baudTestElapsed,           \* millis() - baudTestStartTime in ticks, kept up
                             \* to TestTicks, the ticks of the test duration
  validGpsSentencesCount     \* int validGpsSentencesCount

VARIABLES
  millisNow,              \* what millis() returns now
  lastRaindropSpawnTime,  \* unsigned long lastRaindropSpawnTime
  isInitializedFlag,      \* bool isInitializedFlag
  raindropArray,          \* RainDrop raindropArray[MAX_RAINDROPS]
  groundFlashArray,       \* GroundFlash groundFlashArray[MAX_GROUND_FLASHES]
  rainCall                \* the call the last step made to the rain effect

storeVars == <<eeprom, nextSequence, currentSlot, begun, lastOp, hist>>
filterVars == <<latReadings, lonReadings, altReadings, currentIndex,
                totalReadings, gpsModule, filterOp, fhist>>
baudVars == <<gpsBaudDetectionComplete, currentGpsBaudRate, currentBaudRateIndex,
              baudTestStarted, baudTestElapsed, validGpsSentencesCount>>
rainVars == <<millisNow, lastRaindropSpawnTime, isInitializedFlag, raindropArray,
              groundFlashArray, rainCall>>
clockVars == <<is24Hour, pc, bhist, baudVars, rainVars>>
vars == <<storeVars, filterVars, clockVars>>

\* ------------------------------------------------------------------------
\* Byte-level helpers
\* ------------------------------------------------------------------------
\* The unsigned long of a number below 2^31.
U32(n) == <<n \div UINT16_MOD, n % UINT16_MOD>>

\* a < b on unsigned long.
U32Less(a, b) == a[1] < b[1] \/ (a[1] = b[1] /\ a[2] < b[2])

\* The dataSize bytes of a value, low byte first (the object representation
\* that writeSlot copies through its (uint8_t*) cast): one byte of a uint8_t
\* format, four of an unsigned long count.
ValueBytes(dataType, value) ==
  IF dataType = WL_TIME_FORMAT
    THEN <<value % UINT8_MOD>>
    ELSE <<value[2] % UINT8_MOD, value[2] \div UINT8_MOD,
           value[1] % UINT8_MOD, value[1] \div UINT8_MOD>>

\* The value whose object representation readSlot copied into *data.
BytesValue(dataType, bytes) ==
  IF dataType = WL_TIME_FORMAT
    THEN bytes[1]
    ELSE <<bytes[3] + UINT8_MOD * bytes[4], bytes[1] + UINT8_MOD * bytes[2]>>

\* EEPROM.get(addr, uint16_t&)
EepromGet16(mem, addr) == mem[addr] + UINT8_MOD * mem[addr + 1]

\* EEPROM.put(addr, uint16_t)
EepromPut16(mem, addr, value) ==
  [mem EXCEPT ![addr] = value % UINT8_MOD,
              ![addr + 1] = (value \div UINT8_MOD) % UINT8_MOD]

RECURSIVE WriteBytes(_, _, _, _, _)
\* The loop of writeSlot from index i on: EEPROM.write(base + i, data[i]).
WriteBytes(mem, base, data, size, i) ==
  IF i >= size THEN mem
  ELSE WriteBytes([mem EXCEPT ![base + i] = data[i + 1]], base, data, size, i + 1)

\* getSlotAddress with the slots of both data types laid out from the start
\* address of the time format.
getSlotAddressOneStart(dataType, slotIndex) ==
  (WL_TIME_FORMAT_START_ADDR + slotIndex * slotConfig[dataType].slotSize)
    % UINT16_MOD

\* uint16_t getSlotAddress(dataType, slotIndex)
getSlotAddress(dataType, slotIndex) ==
  (slotConfig[dataType].startAddr + slotIndex * slotConfig[dataType].slotSize)
    % UINT16_MOD

\* readSlotSequence without the mapping of the erased 0xFFFF to invalid.
readSlotSequenceRaw(mem, dataType, slotIndex) ==
  IF slotIndex >= WL_NUM_SLOTS THEN WL_INVALID_SEQUENCE
  ELSE EepromGet16(mem, getSlotAddress(dataType, slotIndex))

\* uint16_t readSlotSequence(dataType, slotIndex)
readSlotSequence(mem, dataType, slotIndex) ==
  IF slotIndex >= WL_NUM_SLOTS THEN WL_INVALID_SEQUENCE
  ELSE LET sequence == EepromGet16(mem, getSlotAddress(dataType, slotIndex))
       IN  IF sequence = ERASED_SEQUENCE THEN WL_INVALID_SEQUENCE ELSE sequence

\* void writeSlot(dataType, slotIndex, sequence, data): the EEPROM afterwards.
\* data is the object representation of the value (never nullptr here).
writeSlot(mem, dataType, slotIndex, sequence, data) ==
  IF slotIndex >= WL_NUM_SLOTS THEN mem
  ELSE LET addr == getSlotAddress(dataType, slotIndex)
       IN  WriteBytes(EepromPut16(mem, addr, sequence), addr + WL_SEQUENCE_SIZE,
                      data, slotConfig[dataType].dataSize, 0)

\* The readSlot variant that skips the check of the slot's sequence number.
readSlotUnchecked(mem, dataType, slotIndex) ==
  IF slotIndex >= WL_NUM_SLOTS THEN [ok |-> FALSE, data |-> 0]
  ELSE LET addr == getSlotAddress(dataType, slotIndex)
           size == slotConfig[dataType].dataSize
       IN  [ok |-> TRUE,
            data |-> BytesValue(dataType, [i \in 1 .. size |->
                                   mem[addr + WL_SEQUENCE_SIZE + i - 1]])]

\* bool readSlot(dataType, slotIndex, data): the result and the value read.
readSlot(mem, dataType, slotIndex) ==
  IF slotIndex >= WL_NUM_SLOTS THEN [ok |-> FALSE, data |-> 0]
  ELSE IF readSlotSequence(mem, dataType, slotIndex) = WL_INVALID_SEQUENCE
    THEN [ok |-> FALSE, data |-> 0]
  ELSE LET addr == getSlotAddress(dataType, slotIndex)
           size == slotConfig[dataType].dataSize
       IN  [ok |-> TRUE,
            data |-> BytesValue(dataType, [i \in 1 .. size |->
                                   mem[addr + WL_SEQUENCE_SIZE + i - 1]])]

\* The comparison of findLatestSlot with the two operands swapped.
IsNewerSwapped(sequence, highestSequence) ==
  \/ highestSequence = WL_INVALID_SEQUENCE
  \/ sequence < highestSequence
  \/ (highestSequence > WRAP_HIGH /\ sequence < WRAP_LOW)

\* The condition under which findLatestSlot takes a valid sequence as newer.
IsNewer(sequence, highestSequence) ==
  \/ highestSequence = WL_INVALID_SEQUENCE
  \/ sequence > highestSequence
  \/ (highestSequence > WRAP_HIGH /\ sequence < WRAP_LOW)

RECURSIVE ScanSlots(_, _, _, _, _)
\* The loop of findLatestSlot from index slot on.
ScanSlots(mem, dataType, slot, highestSequence, latestSlot) ==
  IF slot >= WL_NUM_SLOTS THEN latestSlot
  ELSE LET sequence == readSlotSequence(mem, dataType, slot)
       IN  IF sequence # WL_INVALID_SEQUENCE /\ IsNewer(sequence, highestSequence)
             THEN ScanSlots(mem, dataType, slot + 1, sequence, slot)
             ELSE ScanSlots(mem, dataType, slot + 1, highestSequence, latestSlot)

\* uint8_t findLatestSlot(dataType)
findLatestSlot(mem, dataType) ==
  ScanSlots(mem, dataType, 0, WL_INVALID_SEQUENCE, 0)

\* The input validation of writeTimeFormat with one more value let through.
ValidFormatInputLoose(format) == ~(format # 0 /\ format # 1 /\ format # 2)

\* The input validation of writeTimeFormat (it returns when this is false).
ValidFormatInput(format) == ~(format # 0 /\ format # 1)

\* The validation of the stored format in readTimeFormat.
ValidTimeFormat(format) == format = 0 \/ format = 1

\* The validation of readPowerCycleCount with the ceiling at the erased
\* pattern 0xFFFFFFFF.
ValidPowerCycleCountLoose(count) ==
  U32Less(count, <<UINT16_MOD - 1, UINT16_MOD - 1>>)

\* The validation of readPowerCycleCount.
ValidPowerCycleCount(count) == U32Less(count, POWER_CYCLE_CEILING)

\* readTimeFormat that goes on to the slot before the latest one when the
\* latest slot holds no valid format.
readTimeFormatOlder(mem) ==
  LET latestSlot == findLatestSlot(mem, WL_TIME_FORMAT)
      r == readSlot(mem, WL_TIME_FORMAT, latestSlot)
      o == readSlot(mem, WL_TIME_FORMAT, (latestSlot + WL_NUM_SLOTS - 1) % WL_NUM_SLOTS)
  IN  IF r.ok /\ ValidTimeFormat(r.data) THEN r.data
      ELSE IF o.ok /\ ValidTimeFormat(o.data) THEN o.data ELSE 0

\* uint8_t readTimeFormat()
readTimeFormat(mem) ==
  LET r == readSlot(mem, WL_TIME_FORMAT, findLatestSlot(mem, WL_TIME_FORMAT))
  IN  IF r.ok /\ ValidTimeFormat(r.data) THEN r.data ELSE 0

\* unsigned long readPowerCycleCount()
readPowerCycleCount(mem) ==
  LET r == readSlot(mem, WL_POWER_CYCLE, findLatestSlot(mem, WL_POWER_CYCLE))
  IN  IF r.ok /\ ValidPowerCycleCount(r.data) THEN r.data ELSE U32(0)

\* read() of either data type.
ReadValue(mem, dataType) ==
  IF dataType = WL_TIME_FORMAT THEN readTimeFormat(mem) ELSE readPowerCycleCount(mem)

\* void getDebugInfo(dataType, currentSlotOut, sequenceOut): the two outputs
\* for the members slots = currentSlot and sequences = nextSequence.
getDebugInfo(slots, sequences, dataType) ==
  [slot |-> slots[dataType],
   seq  |-> (sequences[dataType] + UINT16_MOD - 1) % UINT16_MOD]

\* The sequence advance of a write without the test for 0.
AdvanceSequenceNoZeroTest(sequence) ==
  LET s == (sequence + 1) % UINT16_MOD
  IN  IF s = ERASED_SEQUENCE THEN 1 ELSE s

\* nextSequence[..]++ and the wrap that follows it in both write functions.
AdvanceSequence(sequence) ==
  LET s == (sequence + 1) % UINT16_MOD
  IN  IF s = WL_INVALID_SEQUENCE \/ s = ERASED_SEQUENCE THEN 1 ELSE s

\* The value of begin() without the increment.
BeginSequenceNoIncrement(latestSequence) ==
  IF latestSequence = WL_INVALID_SEQUENCE THEN 1
  ELSE IF latestSequence = ERASED_SEQUENCE THEN 1
  ELSE latestSequence

\* The value begin() gives nextSequence[dataType] for a latest sequence.
BeginSequence(latestSequence) ==
  IF latestSequence = WL_INVALID_SEQUENCE THEN 1
  ELSE IF latestSequence = ERASED_SEQUENCE THEN 1
  ELSE (latestSequence + 1) % UINT16_MOD

\* ------------------------------------------------------------------------
\* Storage the program can find at power-on
\* ------------------------------------------------------------------------
\* A factory-fresh EEPROM: every cell 0xFF.
ErasedStorage == [a \in Addresses |-> UINT8_MOD - 1]

\* The values the demo sketch writes on its i-th write of each data type.
PatternFormat(i) == (i + 1) % 2
PatternCount(i) == U32(i * 10)

\* The value of the i-th write of the pattern, per data type.
PatternValue(dataType, i) ==
  IF dataType = WL_TIME_FORMAT THEN PatternFormat(i) ELSE PatternCount(i)

\* The last of the writes 1 .. k of one session on erased storage that went
\* to slot j (the i-th write goes to slot i mod WL_NUM_SLOTS), 0 if none did.
LastWriteTo(k, j) ==
  LET i == k - ((k - j + WL_NUM_SLOTS) % WL_NUM_SLOTS)
  IN  IF i >= 1 THEN i ELSE 0

\* The bytes of a slot that holds sequence and value: the sequence number,
\* low byte first, then the object representation of the value.
SlotImage(dataType, sequence, value) ==
  <<sequence % UINT8_MOD, (sequence \div UINT8_MOD) % UINT8_MOD>>
    \o ValueBytes(dataType, value)

\* The byte at offset off of the slot region of dataType after k pattern
\* writes (k <= 65534, so write i carries sequence i).
WornByte(dataType, k, off) ==
  LET i == LastWriteTo(k, off \div slotConfig[dataType].slotSize)
  IN  IF i = 0 THEN UINT8_MOD - 1
      ELSE SlotImage(dataType, i, PatternValue(dataType, i))
             [(off % slotConfig[dataType].slotSize) + 1]

\* The EEPROM after begin() on erased storage and k pattern writes per type.
WornStorage(k) ==
  [a \in Addresses |->
     IF /\ a >= WL_TIME_FORMAT_START_ADDR
        /\ a < WL_TIME_FORMAT_START_ADDR + WL_NUM_SLOTS * WL_TIME_FORMAT_SLOT_SIZE
       THEN WornByte(WL_TIME_FORMAT, k, a - WL_TIME_FORMAT_START_ADDR)
     ELSE IF a >= WL_POWER_CYCLE_START_ADDR
       THEN WornByte(WL_POWER_CYCLE, k, a - WL_POWER_CYCLE_START_ADDR)
     ELSE UINT8_MOD - 1]

\* An EEPROM never written by the store but not factory-fresh: the even
\* slots hold sequence 0 and a plausible payload, the odd slots are erased.
BlankStorage ==
  [a \in Addresses |->
     LET inA == a >= WL_TIME_FORMAT_START_ADDR
                /\ a < WL_TIME_FORMAT_START_ADDR + WL_NUM_SLOTS * WL_TIME_FORMAT_SLOT_SIZE
         inB == a >= WL_POWER_CYCLE_START_ADDR
         offA == a - WL_TIME_FORMAT_START_ADDR
         offB == a - WL_POWER_CYCLE_START_ADDR
     IN  IF inA /\ (offA \div WL_TIME_FORMAT_SLOT_SIZE) % 2 = 0
           THEN IF offA % WL_TIME_FORMAT_SLOT_SIZE < WL_SEQUENCE_SIZE THEN 0 ELSE 1
         ELSE IF inB /\ (offB \div WL_POWER_CYCLE_SLOT_SIZE) % 2 = 0
           THEN IF offB % WL_POWER_CYCLE_SLOT_SIZE < WL_SEQUENCE_SIZE THEN 0
                ELSE ValueBytes(WL_POWER_CYCLE, U32(258))
                       [(offB % WL_POWER_CYCLE_SLOT_SIZE) - WL_SEQUENCE_SIZE + 1]
         ELSE UINT8_MOD - 1]

\* ------------------------------------------------------------------------
\* History of a run (not program state)
\* ------------------------------------------------------------------------
NoValue == 0 - 1

\* No write of the data type was cut short.
NoTear == [is |-> FALSE, old |-> NoValue, new |-> NoValue]

\* The history after k pattern writes of one session on erased storage.
\*   fromErased   the storage began factory-fresh
\*   steps        slot writes performed in this behaviour
\*   nWrites      slot writes performed per data type since the storage began
\*   hasValid     a write of a valid value was made
\*   lastValid    value of the most recent write of a valid value
\*   invalidStored  a write of an invalid value reached the storage
\*   fresh        begin() has run since the last write of the type
\*   multi        the writes of the type span more than one session
\*   wrapped      a write carried a sequence not above its predecessor's
\*   lastSeq      sequence carried by the last write
\*   s0           currentSlot right after the session's begin()
\*   sessValid    writes of a valid value made in the session
\*   sessTargets  their target slots, as far as this behaviour made them
\*   lastSlot     slot of the last write, NoValue before the first
\*   lastOk       the last write was of a valid value
\*   beginRun     length, capped at 2, of the run of begin() calls that the
\*                last call ended (0 when the last call was not begin())
\*   damage       slots overwritten from outside the store
\*   tears        slot writes cut short by a loss of power
\*   torn         per data type, for the write cut short last with no write
\*                of the type completed since: what read() returned before
\*                it (old) and the value it was writing (new)
HistInit(erased, k) ==
  [fromErased    |-> erased,
   steps         |-> 0,
   nWrites       |-> [dt \in WLDataType |-> k],
   hasValid      |-> [dt \in WLDataType |-> k > 0],
   lastValid     |-> [dt \in WLDataType |-> PatternValue(dt, k)],
   invalidStored |-> [dt \in WLDataType |-> FALSE],
   fresh         |-> [dt \in WLDataType |-> FALSE],
   multi         |-> [dt \in WLDataType |-> FALSE],
   wrapped       |-> [dt \in WLDataType |-> FALSE],
   lastSeq       |-> [dt \in WLDataType |-> k],
   s0            |-> [dt \in WLDataType |-> 0],
   sessValid     |-> [dt \in WLDataType |-> k],
   sessTargets   |-> [dt \in WLDataType |-> << >>],
   lastSlot      |-> [dt \in WLDataType |->
                        IF k > 0 THEN k % WL_NUM_SLOTS ELSE NoValue],
   lastOk        |-> [dt \in WLDataType |-> k > 0],
   beginRun      |-> 0,
   damage        |-> 0,
   tears         |-> 0,
   torn          |-> [dt \in WLDataType |-> NoTear]]

\* The history after a slot write of value to slot with sequence.
HistWrite(dataType, value, slot, sequence, valid) ==
  [hist EXCEPT
     !.steps = @ + 1,
     !.nWrites[dataType] = @ + 1,
     !.hasValid[dataType] = @ \/ valid,
     !.lastValid[dataType] = IF valid THEN value ELSE @,
     !.invalidStored[dataType] = @ \/ ~valid,
     !.multi[dataType] = @ \/ (hist.fresh[dataType] /\ hist.nWrites[dataType] > 0),
     !.fresh[dataType] = FALSE,
     !.wrapped[dataType] = @ \/ (sequence <= hist.lastSeq[dataType]),
     !.lastSeq[dataType] = sequence,
     !.sessValid[dataType] = IF valid THEN @ + 1 ELSE @,
     !.sessTargets[dataType] = IF valid THEN Append(@, slot) ELSE @,
     !.lastSlot[dataType] = slot,
     !.lastOk[dataType] = valid,
     !.beginRun = 0,
     !.torn[dataType] = NoTear]

\* The history after a call that wrote no slot and was not begin().
HistCall == [hist EXCEPT !.beginRun = 0]

\* The record of a call: what was called, with what, and what it did.
Op(name, dataType, arg, done, slot, sequence, ret) ==
  [op |-> name, dt |-> dataType, arg |-> arg, done |-> done,
   slot |-> slot, seq |-> sequence, ret |-> ret]

\* ------------------------------------------------------------------------
\* The GPS stability filter (GpsStabilityFilter.h, GpsStabilityFilter.cpp)
\* ------------------------------------------------------------------------
GPS_FILTER_WINDOW_SIZE == 12
GPS_FILTER_MIN_READINGS == 3
\* The two literals of the trimming rule: readingsToProcess > 5, and
\* readingsToProcess / 5.
TRIM_ABOVE == 5
TRIM_DIVISOR == 5

BufferIndexes == 0 .. (GPS_FILTER_WINDOW_SIZE - 1)

\* A float result: the fraction num / den, den > 0.
Float(num, den) == <<num, den>>

\* Two float results are the same number.
FloatEq(a, b) == a[1] * b[2] = b[1] * a[2]

\* A float has a significand of 24 bits: the whole numbers below 2^24 in
\* absolute value are floats, those from 2^24 * q / 2 up to 2^24 * q, q a
\* power of two, are floats when they are multiples of q.
FLOAT_MANTISSA == 16777216
HALF_MANTISSA == 8388608

\* a / b rounded to the nearest whole number, a tie to the even one
\* (a >= 0, b > 0).
RoundHalfEven(a, b) ==
  LET q == a \div b
      r == a % b
  IN  IF 2 * r < b THEN q
      ELSE IF 2 * r > b THEN q + 1
      ELSE IF q % 2 = 0 THEN q ELSE q + 1

RECURSIVE FloatQuantum(_, _)
\* The distance q of the floats around the whole number a >= 0.
FloatQuantum(a, q) ==
  IF a \div q < FLOAT_MANTISSA THEN q ELSE FloatQuantum(a, 2 * q)

\* The float nearest to the whole number x.
RoundToFloat(x) ==
  LET a == IF x >= 0 THEN x ELSE 0 - x
      q == FloatQuantum(a, 1)
      r == RoundHalfEven(a, q) * q
  IN  IF x >= 0 THEN r ELSE 0 - r

\* x + y on float for whole numbers x and y that are floats.
FloatAdd(x, y) == RoundToFloat(x + y)

RECURSIVE FloatScale(_, _, _)
\* The power of two s for which a * s / d is at least 2^23 (0 < a < d * 2^23).
FloatScale(a, d, s) ==
  IF a * s >= d * HALF_MANTISSA THEN s ELSE FloatScale(a, d, 2 * s)

\* sum / count on float: the float nearest to the fraction f, as a fraction
\* whose denominator is a power of two.
FloatQuotient(f) ==
  LET a == IF f[1] >= 0 THEN f[1] ELSE 0 - f[1]
      d == f[2]
      r == IF a = 0 THEN <<0, 1>>
           ELSE IF a \div d >= HALF_MANTISSA
             THEN LET q == FloatQuantum(a \div d, 1)
                  IN  <<RoundHalfEven(a, d * q) * q, 1>>
           ELSE LET s == FloatScale(a, d, 1)
                IN  <<RoundHalfEven(a * s, d), s>>
  IN  IF f[1] >= 0 THEN r ELSE <<0 - r[1], r[2]>>

\* The test of the three getFiltered functions for the raw path one sample
\* earlier.
TakesRawPathEarly(total, valid) ==
  total < GPS_FILTER_MIN_READINGS - 1 \/ ~valid

\* The test of the three getFiltered functions for the raw path:
\* totalReadings < GPS_FILTER_MIN_READINGS || !isValid().
TakesRawPath(total, valid) ==
  total < GPS_FILTER_MIN_READINGS \/ ~valid

RECURSIVE BubblePass(_, _, _)
\* The inner loop of sortFloatArray from j on: for (j; j < limit; j++) swap
\* arr[j] and arr[j + 1] if arr[j] > arr[j + 1].  arr is the sequence of the
\* array's elements, arr[j] of the code being arr[j + 1] here.
BubblePass(arr, j, limit) ==
  IF j >= limit THEN arr
  ELSE BubblePass(IF arr[j + 1] > arr[j + 2]
                    THEN [arr EXCEPT ![j + 1] = arr[j + 2], ![j + 2] = arr[j + 1]]
                    ELSE arr,
                  j + 1, limit)

RECURSIVE BubbleOuter(_, _, _)
\* The outer loop of sortFloatArray from i on: for (i; i < n - 1; i++).
\* (The test of Len(pass) has TLC evaluate one pass before it starts the
\* next; a pass keeps the length of the array.)
BubbleOuter(arr, i, n) ==
  IF i >= n - 1 THEN arr
  ELSE LET pass == BubblePass(arr, 0, n - i - 1)
       IN  IF Len(pass) = Len(arr) THEN BubbleOuter(pass, i + 1, n) ELSE arr

\* sortFloatArray with its outer loop started at i = 1.
sortFloatArrayFromOne(arr, n) == BubbleOuter(arr, 1, n)

\* void sortFloatArray(float arr[], uint8_t n): the array afterwards.
sortFloatArray(arr, n) == BubbleOuter(arr, 0, n)

\* startIndex with the trimming also applied at five readings.
TrimStartFromFive(n) == IF n >= TRIM_ABOVE THEN n \div TRIM_DIVISOR ELSE 0

\* uint8_t startIndex = readingsToProcess > 5 ? readingsToProcess / 5 : 0
TrimStart(n) == IF n > TRIM_ABOVE THEN n \div TRIM_DIVISOR ELSE 0

\* endIndex with nothing left out at the upper end.
TrimEndKeepsTop(n) == n

\* uint8_t endIndex = readingsToProcess > 5 ? readingsToProcess - startIndex
\*                                          : readingsToProcess
TrimEnd(n) == IF n > TRIM_ABOVE THEN n - TrimStart(n) ELSE n

RECURSIVE SumLoop(_, _, _, _, _)
\* for (i = startIndex; i < endIndex; i++) { sum += workingBuffer[i]; count++; }
SumLoop(arr, i, endIndex, sum, count) ==
  IF i >= endIndex THEN [sum |-> sum, count |-> count]
  ELSE SumLoop(arr, i + 1, endIndex, FloatAdd(sum, arr[i + 1]), count + 1)

\* for (i = 0; i < readingsToProcess; i++) workingBuffer[i] = readings[i]
WorkingCopy(readings, readingsToProcess) ==
  [i \in 1 .. readingsToProcess |-> readings[i - 1]]

\* The filtering path with the sum divided by the number of buffered
\* samples, not by the number of samples added.
FilteredPathOverAll(readings, total, raw) ==
  LET readingsToProcess == total
      workingBuffer == WorkingCopy(readings, readingsToProcess)
      sorted == sortFloatArray(workingBuffer, readingsToProcess)
      acc == SumLoop(sorted, TrimStart(readingsToProcess), TrimEnd(readingsToProcess), 0, 0)
  IN  IF acc.count > 0 THEN Float(acc.sum, readingsToProcess) ELSE Float(raw, 1)

\* The filtering path shared by the three getFiltered functions: copy the
\* first totalReadings entries, sort them, average the middle range; raw is
\* the value returned when the range is empty.
FilteredPath(readings, total, raw) ==
  LET readingsToProcess == total
      workingBuffer == WorkingCopy(readings, readingsToProcess)
      sorted == sortFloatArray(workingBuffer, readingsToProcess)
      acc == SumLoop(sorted, TrimStart(readingsToProcess), TrimEnd(readingsToProcess), 0, 0)
  IN  IF acc.count > 0 THEN Float(acc.sum, acc.count) ELSE Float(raw, 1)

\* The member buffer after a getFiltered function that sorts the buffer
\* itself and not a copy of it.
ReadingsAfterSortInPlace(readings, total, valid) ==
  IF TakesRawPath(total, valid) THEN readings
  ELSE LET sorted == sortFloatArray(WorkingCopy(readings, total), total)
       IN  [i \in BufferIndexes |-> IF i < total THEN sorted[i + 1] ELSE readings[i]]

\* The member buffer after a getFiltered function: the function reads it
\* into the local workingBuffer and sorts that.
ReadingsAfterFiltered(readings, total, valid) == readings

\* float getFilteredLatitude()
getFilteredLatitude(readings, total, gps) ==
  IF TakesRawPath(total, gps.locationValid) THEN Float(gps.lat, 1)
  ELSE FilteredPath(readings, total, gps.lat)

\* float getFilteredLongitude()
getFilteredLongitude(readings, total, gps) ==
  IF TakesRawPath(total, gps.locationValid) THEN Float(gps.lng, 1)
  ELSE FilteredPath(readings, total, gps.lng)

\* float getFilteredAltitude()
getFilteredAltitude(readings, total, gps) ==
  IF TakesRawPath(total, gps.altitudeValid) THEN Float(gps.feet, 1)
  ELSE FilteredPath(readings, total, gps.feet)

\* currentIndex of update() left where it is.
NextIndexStuck(index) == index

\* currentIndex = (currentIndex + 1) % GPS_FILTER_WINDOW_SIZE
NextIndex(index) == (index + 1) % GPS_FILTER_WINDOW_SIZE

\* The increment of totalReadings with its ceiling one below the window.
NextTotalShort(total) ==
  IF total < GPS_FILTER_WINDOW_SIZE - 1 THEN total + 1 ELSE total

\* if (totalReadings < GPS_FILTER_WINDOW_SIZE) totalReadings++
NextTotal(total) == IF total < GPS_FILTER_WINDOW_SIZE THEN total + 1 ELSE total

\* The sample the GPS object reports for the n-th position of a test feed:
\* latitude n, longitude -n (western hemisphere), altitude 3n + 1 feet.
Sample(n) == [lat |-> n, lng |-> 0 - n, feet |-> 3 * n + 1]

\* A GPS object that has not decoded a sentence yet.
GpsNoFix ==
  [locationValid |-> FALSE, altitudeValid |-> FALSE, lat |-> 0, lng |-> 0, feet |-> 0]

\* The history of the filter's run (not program state).
\*   accepted  the samples update() has stored, oldest first
\*   pending   a sentence has arrived since the last stored sample
\*   odd       irregular events so far: outlier sentences, updates that
\*             stored a sample a second time, losses of validity
FilterHistInit == [accepted |-> << >>, pending |-> FALSE, odd |-> 0]

\* GpsStabilityFilter::GpsStabilityFilter(gps) for the global gpsFilter,
\* whose arrays the static initialisation zeroes.
InitFilter ==
  /\ latReadings = [i \in BufferIndexes |-> 0]
  /\ lonReadings = [i \in BufferIndexes |-> 0]
  /\ altReadings = [i \in BufferIndexes |-> 0]
  /\ currentIndex = 0
  /\ totalReadings = 0
  /\ gpsModule = GpsNoFix
  /\ filterOp = [op |-> "construct", ret |-> NoValue]
  /\ fhist = FilterHistInit

\* ------------------------------------------------------------------------
\* The sketch: time format and power-cycle detection (main.cpp, config.h)
\* ------------------------------------------------------------------------
EEPROM_TIME_FORMAT_ADDR == 0
EEPROM_POWER_CYCLE_ADDR == 1
POWER_CYCLE_THRESHOLD == 5

\* cycleCount++ on unsigned long.
U32Inc(a) ==
  IF a[2] = UINT16_MOD - 1 THEN <<(a[1] + 1) % UINT16_MOD, 0>> ELSE <<a[1], a[2] + 1>>

\* EEPROM.get(addr, unsigned long&)
EepromGet32(mem, addr) ==
  BytesValue(WL_POWER_CYCLE, [i \in 1 .. WL_POWER_CYCLE_DATA_SIZE |-> mem[addr + i - 1]])

\* EEPROM.put(addr, unsigned long)
EepromPut32(mem, addr, value) ==
  WriteBytes(mem, addr, ValueBytes(WL_POWER_CYCLE, value), WL_POWER_CYCLE_DATA_SIZE, 0)

\* The format setup() puts in effect for a stored byte: is24Hour = (format == 1).
FormatInEffect(format) == format = 1

\* void toggleTimeFormat(): the EEPROM and is24Hour afterwards.  The byte
\* read is converted to bool (any value but 0 is true), its negation is
\* written as 0 or 1.
toggleTimeFormat(mem) ==
  LET currentFormat == mem[EEPROM_TIME_FORMAT_ADDR] # 0
      newFormat == ~currentFormat
  IN  [eeprom |-> [mem EXCEPT ![EEPROM_TIME_FORMAT_ADDR] = IF newFormat THEN 1 ELSE 0],
       is24Hour |-> newFormat]

\* The test of checkPowerCycles() for the toggle: cycleCount > POWER_CYCLE_THRESHOLD.
ThresholdReached(cycleCount) == U32Less(U32(POWER_CYCLE_THRESHOLD), cycleCount)

\* void checkPowerCycles(): the EEPROM and is24Hour afterwards, the count it
\* stored and whether it toggled.
checkPowerCycles(mem, flag) ==
  LET cycleCount == U32Inc(EepromGet32(mem, EEPROM_POWER_CYCLE_ADDR))
      stored == EepromPut32(mem, EEPROM_POWER_CYCLE_ADDR, cycleCount)
  IN  IF ThresholdReached(cycleCount)
        THEN [eeprom |-> toggleTimeFormat(stored).eeprom,
              is24Hour |-> toggleTimeFormat(stored).is24Hour,
              count |-> cycleCount, toggled |-> TRUE]
        ELSE [eeprom |-> stored, is24Hour |-> flag,
              count |-> cycleCount, toggled |-> FALSE]

\* The history of the boots (not program state).
\*   boots        times the sketch was powered on
\*   run          boots since the welcome message last finished
\*   sinceToggle  boots of the run since the last toggle of the run
\*   gap          boots of the run since its last toggle, the last boot
\*                included
\*   toggled      the last boot toggled the format
\*   after        the format in effect when the last boot had passed
\*                checkPowerCycles()
\*   count        the count the last boot stored, NoValue before the first
\*   byteBefore   the format byte the last boot found
\*   before       the format in effect when the last boot began
BootHistInit ==
  [boots |-> 0, run |-> 0, sinceToggle |-> 0, gap |-> 0, toggled |-> FALSE,
   after |-> FALSE, count |-> NoValue, byteBefore |-> NoValue, before |-> FALSE]

\* The baud rates the detection tests, in the order of the test, the
\* number of valid sentences that confirm a rate, and the EEPROM cells of the
\* saved rate (config.h).
GPS_BAUD_RATES == <<9600, 38400, 115200>>
GPS_BAUD_RATES_COUNT == Len(GPS_BAUD_RATES)
GPS_MIN_VALID_SENTENCES == 3
EEPROM_GPS_BAUD_RATE_ADDR == 5

\* The rate of the sketch when none is saved, and the fallback of the
\* detection.
DEFAULT_GPS_BAUD_RATE == 115200

\* unsigned long loadGpsBaudRate()
loadGpsBaudRate(mem) ==
  LET savedBaudRate == EepromGet32(mem, EEPROM_GPS_BAUD_RATE_ADDR)
  IN  IF \E i \in 1 .. GPS_BAUD_RATES_COUNT : savedBaudRate = U32(GPS_BAUD_RATES[i])
        THEN CHOOSE r \in {GPS_BAUD_RATES[i] : i \in 1 .. GPS_BAUD_RATES_COUNT} :
               savedBaudRate = U32(r)
        ELSE DEFAULT_GPS_BAUD_RATE

\* void saveGpsBaudRate(baudRate): the EEPROM afterwards.
saveGpsBaudRate(mem, baudRate) ==
  EepromPut32(mem, EEPROM_GPS_BAUD_RATE_ADDR, U32(baudRate))

\* The test of setup() for a saved rate: currentGpsBaudRate != 115200.
HasSavedBaudRate(loaded) == loaded # DEFAULT_GPS_BAUD_RATE

\* The globals of the baud-rate detection as the sketch defines them.
InitBaudGlobals ==
  /\ gpsBaudDetectionComplete = FALSE
  /\ currentGpsBaudRate = DEFAULT_GPS_BAUD_RATE
  /\ currentBaudRateIndex = 0
  /\ baudTestStarted = FALSE
  /\ baudTestElapsed = 0
  /\ validGpsSentencesCount = 0

\* ------------------------------------------------------------------------
\* The rain effect (RainEffect.h, RainEffect.cpp)
\* ------------------------------------------------------------------------
MAX_RAINDROPS == 8
MAX_GROUND_FLASHES == 6
RAIN_SPAWN_INTERVAL_MS == 250
RAIN_FALL_SPEED_MIN_MS == 80
RAIN_FALL_SPEED_MAX_MS == 150
GROUND_FLASH_DURATION_MS == 300
\* brightnessIntensity = 15, and 15 * fadeRatio.
MAX_BRIGHTNESS == 15
\* The milliseconds of one tick of millis() in the model.
RAIN_TICK_MS == 50

\* The members of a RainDrop and of a GroundFlash in static storage before
\* the constructor runs: zero.
ZeroRainDrop ==
  [positionX |-> 0, positionY |-> 0, fallSpeedMs |-> 0, isActive |-> FALSE,
   lastMoveTime |-> 0]

ZeroGroundFlash ==
  [positionX |-> 0, brightnessIntensity |-> 0, initialIntensity |-> 0,
   flashStartTime |-> 0, isActive |-> FALSE]

\* RainEffect::RainEffect(matrix) on the global rainEffect.
InitRainEffect ==
  /\ millisNow = 0
  /\ lastRaindropSpawnTime = 0
  /\ isInitializedFlag = FALSE
  /\ raindropArray = [i \in 1 .. MAX_RAINDROPS |-> ZeroRainDrop]
  /\ groundFlashArray = [i \in 1 .. MAX_GROUND_FLASHES |-> ZeroGroundFlash]
  /\ rainCall = "none"

\* The sketch without power.
InitClock ==
  /\ is24Hour = FALSE
  /\ pc = "off"
  /\ bhist = BootHistInit
  /\ InitBaudGlobals
  /\ InitRainEffect

\* ------------------------------------------------------------------------
\* Initial states
\* ------------------------------------------------------------------------
\* EEPROMWearLeveling::EEPROMWearLeveling()
ConstructorSequence == [dt \in WLDataType |-> 1]
ConstructorSlot == [dt \in WLDataType |-> 0]

\* A new instance over storage the store never wrote.
InitUnwritten(mem, erased) ==
  /\ eeprom = mem
  /\ nextSequence = ConstructorSequence
  /\ currentSlot = ConstructorSlot
  /\ begun = FALSE
  /\ lastOp = Op("construct", NoValue, NoValue, FALSE, NoValue, NoValue, NoValue)
  /\ hist = HistInit(erased, 0)
  /\ InitFilter
  /\ InitClock

\* The session that began on erased storage and has made k pattern writes
\* to each data type (1 <= k <= 65534).
InitWorn(k) ==
  /\ eeprom = WornStorage(k)
  /\ nextSequence = [dt \in WLDataType |-> AdvanceSequence(k)]
  /\ currentSlot = [dt \in WLDataType |-> k % WL_NUM_SLOTS]
  /\ begun = TRUE
  /\ lastOp = Op("writePowerCycleCount", WL_POWER_CYCLE, PatternCount(k), TRUE,
                 k % WL_NUM_SLOTS, k, NoValue)
  /\ hist = HistInit(TRUE, k)
  /\ InitFilter
  /\ InitClock

\* The last sequence number a write can carry before the wrap, 0xFFFE.
LAST_SEQUENCE == 65534

Init ==
  \/ InitUnwritten(ErasedStorage, TRUE)
  \/ InitUnwritten(BlankStorage, FALSE)
  \/ \E k \in (LAST_SEQUENCE - PreWrap) .. LAST_SEQUENCE : InitWorn(k)

InitLong ==
  \/ InitUnwritten(ErasedStorage, TRUE)
  \/ InitWorn(LAST_SEQUENCE)

\* ------------------------------------------------------------------------
\* Operations
\* ------------------------------------------------------------------------
\* Arguments the caller passes (uint8_t format, unsigned long count).
FormatInputs == {0, 1, 2}
CountInputs == {U32(258), <<CEILING_HIGH_WORD, CEILING_LOW_WORD - 1>>, POWER_CYCLE_CEILING}
\* The narrower arguments of the long behaviours.
LongFormatInputs == {1, 2}

\* A new instance replaces the old one (restart): the constructor.
Construct ==
  /\ nextSequence' = ConstructorSequence
  /\ currentSlot' = ConstructorSlot
  /\ begun' = FALSE
  /\ lastOp' = Op("construct", NoValue, NoValue, FALSE, NoValue, NoValue, NoValue)
  /\ hist' = HistCall
  /\ UNCHANGED <<eeprom, filterVars, clockVars>>

\* A begin() that rescans only on its first call and afterwards advances
\* the sequence numbers it has.
BeginOnce ==
  LET latestSlot == [dt \in WLDataType |-> findLatestSlot(eeprom, dt)]
      latestSequence == [dt \in WLDataType |-> readSlotSequence(eeprom, dt, latestSlot[dt])]
  IN  /\ currentSlot' = latestSlot
      /\ nextSequence' = [dt \in WLDataType |->
                            IF begun THEN AdvanceSequence(nextSequence[dt])
                            ELSE BeginSequence(latestSequence[dt])]
      /\ begun' = TRUE
      /\ lastOp' = Op("begin", NoValue, NoValue, FALSE, NoValue, NoValue, NoValue)
      /\ hist' = [hist EXCEPT !.fresh = [dt \in WLDataType |-> TRUE],
                              !.s0 = latestSlot,
                              !.sessValid = [dt \in WLDataType |-> 0],
                              !.sessTargets = [dt \in WLDataType |-> << >>],
                              !.beginRun = IF @ = 0 THEN 1 ELSE 2]
      /\ UNCHANGED <<eeprom, filterVars, clockVars>>

\* void begin()
Begin ==
  LET latestSlot == [dt \in WLDataType |-> findLatestSlot(eeprom, dt)]
      latestSequence == [dt \in WLDataType |-> readSlotSequence(eeprom, dt, latestSlot[dt])]
  IN  /\ currentSlot' = latestSlot
      /\ nextSequence' = [dt \in WLDataType |-> BeginSequence(latestSequence[dt])]
      /\ begun' = TRUE
      /\ lastOp' = Op("begin", NoValue, NoValue, FALSE, NoValue, NoValue, NoValue)
      /\ hist' = [hist EXCEPT !.fresh = [dt \in WLDataType |-> TRUE],
                              !.s0 = latestSlot,
                              !.sessValid = [dt \in WLDataType |-> 0],
                              !.sessTargets = [dt \in WLDataType |-> << >>],
                              !.beginRun = IF @ = 0 THEN 1 ELSE 2]
      /\ UNCHANGED <<eeprom, filterVars, clockVars>>

\* The part of both write functions after the validation: move to the next
\* slot, write it, advance the sequence number.
RotateAndWrite(name, dataType, value, valid) ==
  LET slot == (currentSlot[dataType] + 1) % WL_NUM_SLOTS
      sequence == nextSequence[dataType]
  IN  /\ currentSlot' = [currentSlot EXCEPT ![dataType] = slot]
      /\ eeprom' = writeSlot(eeprom, dataType, slot, sequence,
                             ValueBytes(dataType, value))
      /\ nextSequence' = [nextSequence EXCEPT ![dataType] = AdvanceSequence(sequence)]
      /\ lastOp' = Op(name, dataType, value, TRUE, slot, sequence, NoValue)
      /\ hist' = HistWrite(dataType, value, slot, sequence, valid)
      /\ UNCHANGED <<begun, filterVars, clockVars>>

\* void writeTimeFormat(uint8_t format)
WriteTimeFormat(format, limit) ==
  /\ begun
  /\ hist.steps < limit
  /\ IF ~ValidFormatInput(format)
       THEN /\ lastOp' = Op("writeTimeFormat", WL_TIME_FORMAT, format, FALSE,
                            NoValue, NoValue, NoValue)
            /\ hist' = HistCall
            /\ UNCHANGED <<eeprom, nextSequence, currentSlot, begun, filterVars, clockVars>>
       ELSE RotateAndWrite("writeTimeFormat", WL_TIME_FORMAT, format, TRUE)

\* void writePowerCycleCount(unsigned long count)
WritePowerCycleCount(count, limit) ==
  /\ begun
  /\ hist.steps < limit
  /\ RotateAndWrite("writePowerCycleCount", WL_POWER_CYCLE, count,
                    ValidPowerCycleCount(count))

\* uint8_t readTimeFormat(), called
ReadTimeFormat ==
  /\ begun
  /\ lastOp' = Op("readTimeFormat", WL_TIME_FORMAT, NoValue, FALSE, NoValue, NoValue,
                  readTimeFormat(eeprom))
  /\ hist' = HistCall
  /\ UNCHANGED <<eeprom, nextSequence, currentSlot, begun, filterVars, clockVars>>

\* unsigned long readPowerCycleCount(), called
ReadPowerCycleCount ==
  /\ begun
  /\ lastOp' = Op("readPowerCycleCount", WL_POWER_CYCLE, NoValue, FALSE, NoValue, NoValue,
                  readPowerCycleCount(eeprom))
  /\ hist' = HistCall
  /\ UNCHANGED <<eeprom, nextSequence, currentSlot, begun, filterVars, clockVars>>

\* void getDebugInfo(dataType, currentSlotOut, sequenceOut)
GetDebugInfo(dataType) ==
  /\ begun
  /\ lastOp' = Op("getDebugInfo", dataType, NoValue, FALSE,
                  getDebugInfo(currentSlot, nextSequence, dataType).slot,
                  getDebugInfo(currentSlot, nextSequence, dataType).seq, NoValue)
  /\ hist' = HistCall
  /\ UNCHANGED <<eeprom, nextSequence, currentSlot, begun, filterVars, clockVars>>

Next ==
  \/ Construct
  \/ Begin
  \/ \E format \in FormatInputs : WriteTimeFormat(format, MaxWrites)
  \/ \E count \in CountInputs : WritePowerCycleCount(count, MaxWrites)
  \/ ReadTimeFormat
  \/ ReadPowerCycleCount
  \/ \E dataType \in WLDataType : GetDebugInfo(dataType)

Spec == Init /\ [][Next]_vars

\* Long runs of one data type: begin() (again, or after a restart), writes
\* of the time format and reads of it.
NextLong ==
  \/ Begin
  \/ \E format \in LongFormatInputs : WriteTimeFormat(format, MaxLongWrites)
  \/ ReadTimeFormat

SpecLong == InitLong /\ [][NextLong]_vars

\* ------------------------------------------------------------------------
\* Storage found at power-on with contents the store did not write
\* ------------------------------------------------------------------------
\* The used storage: FoundWear pattern writes, so every slot is valid and the
\* last slot is the latest.
FoundWear == 2 * WL_NUM_SLOTS - 1

\* What the slots overwritten from outside can hold: the first or the last
\* slot of a data type, a sequence field that is invalid (0, erased 0xFFFF),
\* low or high, and a payload in or out of the range of its reader.
FoundSlots == {0, WL_NUM_SLOTS - 1}
FoundSequences ==
  {WL_INVALID_SEQUENCE, 1, WRAP_HIGH + 1, LAST_SEQUENCE, ERASED_SEQUENCE}
FoundValues(dataType) ==
  IF dataType = WL_TIME_FORMAT THEN {1, 2, UINT8_MOD - 1}
  ELSE {U32(258), POWER_CYCLE_CEILING, <<UINT16_MOD - 1, UINT16_MOD - 1>>}

\* A new instance over the used storage.
InitFoundWorn ==
  /\ eeprom = WornStorage(FoundWear)
  /\ nextSequence = ConstructorSequence
  /\ currentSlot = ConstructorSlot
  /\ begun = FALSE
  /\ lastOp = Op("construct", NoValue, NoValue, FALSE, NoValue, NoValue, NoValue)
  /\ hist = HistInit(TRUE, FoundWear)
  /\ InitFilter
  /\ InitClock

InitFound ==
  \/ InitUnwritten(ErasedStorage, TRUE)
  \/ InitFoundWorn

\* Before begin(), a slot's bytes are overwritten from outside the store
\* (other firmware using the same cells, a failing cell).
Damage(dataType, slot, sequence, value) ==
  /\ ~begun
  /\ hist.damage < MaxDamage
  /\ eeprom' = writeSlot(eeprom, dataType, slot, sequence, ValueBytes(dataType, value))
  /\ lastOp' = Op("damage", dataType, value, FALSE, slot, sequence, NoValue)
  /\ hist' = [hist EXCEPT !.damage = @ + 1, !.fromErased = FALSE, !.beginRun = 0]
  /\ UNCHANGED <<nextSequence, currentSlot, begun, filterVars, clockVars>>

NextFound ==
  \/ \E dataType \in WLDataType : \E slot \in FoundSlots :
       \E sequence \in FoundSequences : \E value \in FoundValues(dataType) :
         Damage(dataType, slot, sequence, value)
  \/ Begin
  \/ ReadTimeFormat
  \/ ReadPowerCycleCount
  \/ \E dataType \in WLDataType : GetDebugInfo(dataType)

SpecFound == InitFound /\ [][NextFound]_vars

\* ------------------------------------------------------------------------
\* Loss of power during a slot write
\* ------------------------------------------------------------------------
\* The valid values the writes of these behaviours carry.
TornFormatInputs == {0, 1}
TornCountInputs == {U32(258), U32(259)}

\* How many of the bytes of a slot a write cut short has written: at least
\* one, not all.
TornLengths(dataType) == 1 .. (slotConfig[dataType].slotSize - 1)

\* A write function that loses power inside writeSlot when written of the
\* slot's bytes are in the EEPROM: EEPROM.put stores the sequence number low
\* byte first, the loop stores the payload after it.  The instance is gone;
\* the next one starts from its constructor.
TornWrite(dataType, value, written) ==
  LET slot == (currentSlot[dataType] + 1) % WL_NUM_SLOTS
      sequence == nextSequence[dataType]
  IN  /\ begun
      /\ hist.tears < MaxTears
      /\ eeprom' = WriteBytes(eeprom, getSlotAddress(dataType, slot),
                              SlotImage(dataType, sequence, value), written, 0)
      /\ nextSequence' = ConstructorSequence
      /\ currentSlot' = ConstructorSlot
      /\ begun' = FALSE
      /\ lastOp' = Op("powerLoss", dataType, value, FALSE, slot, sequence, NoValue)
      /\ hist' = [hist EXCEPT
                    !.tears = @ + 1,
                    !.torn[dataType] = [is |-> TRUE,
                                        old |-> ReadValue(eeprom, dataType),
                                        new |-> value],
                    !.beginRun = 0]
      /\ UNCHANGED <<filterVars, clockVars>>

InitTorn ==
  \/ InitUnwritten(ErasedStorage, TRUE)
  \/ InitWorn(FoundWear)

NextTorn ==
  \/ Begin
  \/ \E format \in TornFormatInputs : WriteTimeFormat(format, MaxWrites)
  \/ \E count \in TornCountInputs : WritePowerCycleCount(count, MaxWrites)
  \/ \E dataType \in WLDataType :
       \E value \in (IF dataType = WL_TIME_FORMAT THEN TornFormatInputs
                                                  ELSE TornCountInputs) :
         \E written \in TornLengths(dataType) : TornWrite(dataType, value, written)
  \/ ReadTimeFormat
  \/ ReadPowerCycleCount

SpecTorn == InitTorn /\ [][NextTorn]_vars

\* ------------------------------------------------------------------------
\* Operations of the filter and of the GPS object it reads
\* ------------------------------------------------------------------------
\* The position of the feed far from all others.
OutlierPosition == 10 * GPS_FILTER_WINDOW_SIZE

\* The GPS object decodes a sentence with a fix: location and altitude
\* become valid and report the sample of position n.
GpsSentence(n) ==
  /\ Len(fhist.accepted) < MaxUpdates
  /\ n = OutlierPosition => fhist.odd < MaxOdd
  /\ gpsModule' = [locationValid |-> TRUE, altitudeValid |-> TRUE,
                    lat |-> Sample(n).lat, lng |-> Sample(n).lng,
                    feet |-> Sample(n).feet]
  /\ fhist' = [fhist EXCEPT !.pending = TRUE,
                            !.odd = IF n = OutlierPosition THEN @ + 1 ELSE @]
  /\ filterOp' = [op |-> "sentence", ret |-> NoValue]
  /\ UNCHANGED <<latReadings, lonReadings, altReadings, currentIndex,
                 totalReadings, storeVars, clockVars>>

\* The GPS object reports location or altitude as not valid (no fix yet for
\* one of them, or the fix is lost); the values it reports stay.
GpsValidity(locationValid, altitudeValid) ==
  /\ ~(locationValid /\ altitudeValid)
  /\ fhist.odd < MaxOdd
  /\ gpsModule' = [gpsModule EXCEPT !.locationValid = locationValid,
                                    !.altitudeValid = altitudeValid]
  /\ fhist' = [fhist EXCEPT !.odd = @ + 1]
  /\ filterOp' = [op |-> "validity", ret |-> NoValue]
  /\ UNCHANGED <<latReadings, lonReadings, altReadings, currentIndex,
                 totalReadings, storeVars, clockVars>>

\* The test of update() with the validity of the location alone.
UpdateReturnsEarlyOnLocation(gps) == ~gps.locationValid

\* The test of update() for its early return.
UpdateReturnsEarly(gps) == ~gps.locationValid \/ ~gps.altitudeValid

\* void update()
Update ==
  IF UpdateReturnsEarly(gpsModule)
    THEN /\ filterOp' = [op |-> "update", ret |-> FALSE]
         /\ UNCHANGED <<latReadings, lonReadings, altReadings, currentIndex,
                        totalReadings, gpsModule, fhist, storeVars, clockVars>>
    ELSE /\ Len(fhist.accepted) < MaxUpdates
         /\ ~fhist.pending => fhist.odd < MaxOdd
         /\ latReadings' = [latReadings EXCEPT ![currentIndex] = gpsModule.lat]
         /\ lonReadings' = [lonReadings EXCEPT ![currentIndex] = gpsModule.lng]
         /\ altReadings' = [altReadings EXCEPT ![currentIndex] = gpsModule.feet]
         /\ currentIndex' = NextIndex(currentIndex)
         /\ totalReadings' = NextTotal(totalReadings)
         /\ filterOp' = [op |-> "update", ret |-> TRUE]
         /\ fhist' = [fhist EXCEPT
                        !.accepted = Append(@, [lat |-> gpsModule.lat,
                                                lng |-> gpsModule.lng,
                                                feet |-> gpsModule.feet]),
                        !.pending = FALSE,
                        !.odd = IF fhist.pending THEN @ ELSE @ + 1]
         /\ UNCHANGED <<gpsModule, storeVars, clockVars>>

\* float getFilteredLatitude(), called
GetFilteredLatitude ==
  /\ filterOp' = [op |-> "getFilteredLatitude",
                   ret |-> getFilteredLatitude(latReadings, totalReadings, gpsModule)]
  /\ latReadings' = ReadingsAfterFiltered(latReadings, totalReadings, gpsModule.locationValid)
  /\ UNCHANGED <<lonReadings, altReadings, currentIndex,
                 totalReadings, gpsModule, fhist, storeVars, clockVars>>

\* float getFilteredLongitude(), called
GetFilteredLongitude ==
  /\ filterOp' = [op |-> "getFilteredLongitude",
                   ret |-> getFilteredLongitude(lonReadings, totalReadings, gpsModule)]
  /\ lonReadings' = ReadingsAfterFiltered(lonReadings, totalReadings, gpsModule.locationValid)
  /\ UNCHANGED <<latReadings, altReadings, currentIndex,
                 totalReadings, gpsModule, fhist, storeVars, clockVars>>

\* float getFilteredAltitude(), called
GetFilteredAltitude ==
  /\ filterOp' = [op |-> "getFilteredAltitude",
                   ret |-> getFilteredAltitude(altReadings, totalReadings, gpsModule)]
  /\ altReadings' = ReadingsAfterFiltered(altReadings, totalReadings, gpsModule.altitudeValid)
  /\ UNCHANGED <<latReadings, lonReadings, currentIndex,
                 totalReadings, gpsModule, fhist, storeVars, clockVars>>

\* uint8_t getTotalReadings(), called
GetTotalReadings ==
  /\ filterOp' = [op |-> "getTotalReadings", ret |-> totalReadings]
  /\ UNCHANGED <<latReadings, lonReadings, altReadings, currentIndex,
                 totalReadings, gpsModule, fhist, storeVars, clockVars>>

NextFilter ==
  \/ \E n \in {Len(fhist.accepted) + 1, OutlierPosition} : GpsSentence(n)
  \/ \E locationValid \in BOOLEAN : \E altitudeValid \in BOOLEAN :
       GpsValidity(locationValid, altitudeValid)
  \/ Update
  \/ GetFilteredLatitude
  \/ GetFilteredLongitude
  \/ GetFilteredAltitude
  \/ GetTotalReadings

SpecFilter == InitUnwritten(ErasedStorage, TRUE) /\ [][NextFilter]_vars

\* ------------------------------------------------------------------------
\* Power cycles of the sketch
\* ------------------------------------------------------------------------
\* What the cells 0 .. 4 can hold at the first power-on: a format byte that
\* is 12-hour, 24-hour, some other value or erased, and a count that is 0
\* or erased.
BootFormats == {0, 1, 2, UINT8_MOD - 1}
BootCounts == {U32(0), <<UINT16_MOD - 1, UINT16_MOD - 1>>}

BootStorage(format, count) ==
  EepromPut32([ErasedStorage EXCEPT ![EEPROM_TIME_FORMAT_ADDR] = format],
              EEPROM_POWER_CYCLE_ADDR, count)

InitBoot ==
  \E format \in BootFormats : \E count \in BootCounts :
    InitUnwritten(BootStorage(format, count), FALSE)

\* Power is applied: setup() up to and including checkPowerCycles(), in a
\* behaviour of at most limit boots.
PowerOnWithin(limit) ==
  /\ pc = "off"
  /\ bhist.boots < limit
  /\ currentGpsBaudRate' = loadGpsBaudRate(eeprom)
  /\ gpsBaudDetectionComplete' = HasSavedBaudRate(loadGpsBaudRate(eeprom))
  /\ UNCHANGED <<currentBaudRateIndex, baudTestStarted, baudTestElapsed,
                 validGpsSentencesCount>>
  /\ LET format == eeprom[EEPROM_TIME_FORMAT_ADDR]
         r == checkPowerCycles(eeprom, FormatInEffect(format))
     IN  /\ eeprom' = r.eeprom
         /\ is24Hour' = r.is24Hour
         /\ bhist' = [boots |-> bhist.boots + 1,
                      run |-> bhist.run + 1,
                      sinceToggle |-> IF r.toggled THEN 0 ELSE bhist.sinceToggle + 1,
                      gap |-> bhist.sinceToggle + 1,
                      toggled |-> r.toggled,
                      after |-> r.is24Hour,
                      count |-> r.count,
                      byteBefore |-> format,
                      before |-> FormatInEffect(format)]
  /\ pc' = "startup"
  /\ UNCHANGED <<nextSequence, currentSlot, begun, lastOp, hist, filterVars, rainVars>>

PowerOn == PowerOnWithin(MaxBoots)

\* The welcome message has scrolled out and setup() goes on without the
\* reset of the counter.
WelcomeDoneKeepsCount ==
  /\ pc = "startup"
  /\ pc' = "running"
  /\ bhist' = [bhist EXCEPT !.run = 0, !.sinceToggle = 0]
  /\ UNCHANGED <<eeprom, is24Hour, nextSequence, currentSlot, begun, lastOp, hist,
                 filterVars, baudVars, rainVars>>

\* The welcome message has scrolled out: setup() resets the counter and
\* starts the tickers.
WelcomeDone ==
  /\ pc = "startup"
  /\ eeprom' = EepromPut32(eeprom, EEPROM_POWER_CYCLE_ADDR, U32(0))
  /\ pc' = "running"
  /\ bhist' = [bhist EXCEPT !.run = 0, !.sinceToggle = 0]
  /\ UNCHANGED <<is24Hour, nextSequence, currentSlot, begun, lastOp, hist, filterVars,
                 baudVars, rainVars>>

\* Power is removed; the RAM is lost.
PowerOff ==
  /\ pc \in {"startup", "running"}
  /\ pc' = "off"
  /\ is24Hour' = FALSE
  /\ gpsBaudDetectionComplete' = FALSE
  /\ currentGpsBaudRate' = DEFAULT_GPS_BAUD_RATE
  /\ currentBaudRateIndex' = 0
  /\ baudTestStarted' = FALSE
  /\ baudTestElapsed' = 0
  /\ validGpsSentencesCount' = 0
  /\ millisNow' = 0
  /\ lastRaindropSpawnTime' = 0
  /\ isInitializedFlag' = FALSE
  /\ raindropArray' = [i \in 1 .. MAX_RAINDROPS |-> ZeroRainDrop]
  /\ groundFlashArray' = [i \in 1 .. MAX_GROUND_FLASHES |-> ZeroGroundFlash]
  /\ rainCall' = "none"
  /\ UNCHANGED <<bhist, storeVars, filterVars>>

NextBoot ==
  \/ PowerOn
  \/ WelcomeDone
  \/ PowerOff

SpecBoot == InitBoot /\ [][NextBoot]_vars

\* ------------------------------------------------------------------------
\* The detection of the GPS baud rate
\* ------------------------------------------------------------------------
\* What the cells of the saved rate can hold at the first power-on: erased,
\* or a rate saved by an earlier run of the sketch.
InitBaud ==
  \/ InitUnwritten(BootStorage(0, U32(0)), FALSE)
  \/ \E i \in 1 .. GPS_BAUD_RATES_COUNT :
       InitUnwritten(saveGpsBaudRate(BootStorage(0, U32(0)), GPS_BAUD_RATES[i]), FALSE)

\* millis() advances by one tick during a baud-rate test.
Tick ==
  /\ pc = "running"
  /\ baudTestStarted
  /\ ~gpsBaudDetectionComplete
  /\ baudTestElapsed < TestTicks
  /\ baudTestElapsed' = baudTestElapsed + 1
  /\ UNCHANGED <<gpsBaudDetectionComplete, currentGpsBaudRate, currentBaudRateIndex,
                 baudTestStarted, validGpsSentencesCount, is24Hour, pc, bhist,
                 storeVars, filterVars, rainVars>>

\* The test of detectGpsBaudRate() for a confirmed rate with one valid
\* sentence taken as enough.
RateIsConfirmedByOne(count) == count >= 1

\* The test of detectGpsBaudRate() for a confirmed rate.
RateIsConfirmed(count) == count >= GPS_MIN_VALID_SENTENCES

\* void detectGpsBaudRate(), called by loop() when the GPS date and time are
\* not valid; sentences is the number of valid sentences gpsModule.encode()
\* completes from the characters the call reads.
detectGpsBaudRate(sentences) ==
  /\ pc = "running"
  /\ IF gpsBaudDetectionComplete
       THEN UNCHANGED <<eeprom, baudVars>>
     ELSE IF ~baudTestStarted
       THEN /\ baudTestStarted' = TRUE
            /\ baudTestElapsed' = 0
            /\ currentBaudRateIndex' = 0
            /\ validGpsSentencesCount' = 0
            /\ currentGpsBaudRate' = GPS_BAUD_RATES[1]
            /\ UNCHANGED <<eeprom, gpsBaudDetectionComplete>>
     ELSE IF RateIsConfirmed(validGpsSentencesCount + sentences)
       THEN /\ validGpsSentencesCount' = validGpsSentencesCount + sentences
            /\ gpsBaudDetectionComplete' = TRUE
            /\ eeprom' = saveGpsBaudRate(eeprom, currentGpsBaudRate)
            /\ UNCHANGED <<currentGpsBaudRate, currentBaudRateIndex, baudTestStarted,
                           baudTestElapsed>>
     ELSE IF baudTestElapsed >= TestTicks
       THEN IF currentBaudRateIndex + 1 >= GPS_BAUD_RATES_COUNT
              THEN /\ currentBaudRateIndex' = currentBaudRateIndex + 1
                   /\ validGpsSentencesCount' = validGpsSentencesCount + sentences
                   /\ gpsBaudDetectionComplete' = TRUE
                   /\ currentGpsBaudRate' = DEFAULT_GPS_BAUD_RATE
                   /\ UNCHANGED <<eeprom, baudTestStarted, baudTestElapsed>>
              ELSE /\ currentBaudRateIndex' = currentBaudRateIndex + 1
                   /\ currentGpsBaudRate' = GPS_BAUD_RATES[currentBaudRateIndex + 2]
                   /\ validGpsSentencesCount' = 0
                   /\ baudTestElapsed' = 0
                   /\ UNCHANGED <<eeprom, gpsBaudDetectionComplete, baudTestStarted>>
     ELSE /\ validGpsSentencesCount' = validGpsSentencesCount + sentences
          /\ UNCHANGED <<eeprom, gpsBaudDetectionComplete, currentGpsBaudRate,
                         currentBaudRateIndex, baudTestStarted, baudTestElapsed>>
  /\ UNCHANGED <<nextSequence, currentSlot, begun, lastOp, hist, filterVars,
                 is24Hour, pc, bhist, rainVars>>

NextBaud ==
  \/ PowerOnWithin(MaxSessions)
  \/ WelcomeDone
  \/ PowerOff
  \/ Tick
  \/ \E sentences \in 0 .. MaxSentences : detectGpsBaudRate(sentences)

SpecBaud == InitBaud /\ [][NextBaud]_vars

\* loop() goes on calling detectGpsBaudRate() and millis() goes on advancing.
SpecBaudFair ==
  /\ SpecBaud
  /\ WF_vars(Tick)
  /\ WF_vars(\E sentences \in 0 .. MaxSentences : detectGpsBaudRate(sentences))

\* The rate the EEPROM holds as saved.
SavedBaudRate(mem) == EepromGet32(mem, EEPROM_GPS_BAUD_RATE_ADDR)

\* ------------------------------------------------------------------------
\* The rain effect under calls of initialize() and update()
\* ------------------------------------------------------------------------
\* The times of the model stay far below 2^32, so the unsigned differences
\* currentTime - lastRaindropSpawnTime, currentTime - lastMoveTime and
\* currentTime - flashStartTime never wrap.

\* The first slot of arr that is not active, 0 if all are active (the
\* for loops of spawnNewRaindrop and createGroundImpactFlash up to break).
FirstInactive(arr) ==
  IF \A i \in 1 .. Len(arr) : arr[i].isActive THEN 0
  ELSE CHOOSE i \in 1 .. Len(arr) :
         ~arr[i].isActive /\ \A j \in 1 .. (i - 1) : arr[j].isActive

\* void RainEffect::spawnNewRaindrop(): the raindrops afterwards; x and
\* speed are the two values random() returns.
spawnNewRaindrop(drops, x, speed, now) ==
  LET i == FirstInactive(drops)
  IN  IF i = 0 THEN drops
      ELSE [drops EXCEPT ![i] = [positionX |-> x, positionY |-> 0,
                                 fallSpeedMs |-> speed, isActive |-> TRUE,
                                 lastMoveTime |-> now]]

\* void RainEffect::createGroundImpactFlash(xPosition): the flashes
\* afterwards.
createGroundImpactFlash(flashes, xPosition, now) ==
  LET i == FirstInactive(flashes)
  IN  IF i = 0 THEN flashes
      ELSE [flashes EXCEPT ![i] = [positionX |-> xPosition,
                                   brightnessIntensity |-> MAX_BRIGHTNESS,
                                   initialIntensity |-> flashes[i].initialIntensity,
                                   flashStartTime |-> now,
                                   isActive |-> TRUE]]

RECURSIVE updateFallingRaindrops(_, _, _, _)
\* void RainEffect::updateFallingRaindrops() from raindropIndex i - 1 on:
\* the raindrops and the flashes afterwards.
updateFallingRaindrops(drops, flashes, i, now) ==
  IF i > Len(drops) THEN <<drops, flashes>>
  ELSE LET d == drops[i]
           moves == d.isActive /\ now - d.lastMoveTime >= d.fallSpeedMs
           lands == moves /\ d.positionY + 1 >= MatrixHeight
           moved == [d EXCEPT !.positionY = d.positionY + 1,
                              !.lastMoveTime = now,
                              !.isActive = ~lands]
           nextDrops == IF moves THEN [drops EXCEPT ![i] = moved] ELSE drops
           nextFlashes == IF lands
                            THEN createGroundImpactFlash(flashes, d.positionX, now)
                            ELSE flashes
       IN  IF Len(nextDrops) = Len(drops) /\ Len(nextFlashes) = Len(flashes)
             THEN updateFallingRaindrops(nextDrops, nextFlashes, i + 1, now)
             ELSE <<drops, flashes>>

RECURSIVE Pow2(_)
Pow2(k) == IF k = 0 THEN 1 ELSE 2 * Pow2(k - 1)

RECURSIVE RatioShift(_, _, _)
\* The least e from e on with a * 2^e >= d (0 < a < d).
RatioShift(a, d, e) == IF a * Pow2(e) >= d THEN e ELSE RatioShift(a, d, e + 1)

RECURSIVE RatioBits(_, _, _, _)
\* n more bits of a quotient by long division: the bits so far and the
\* remainder.
RatioBits(rem, d, acc, n) ==
  IF n = 0 THEN <<acc, rem>>
  ELSE RatioBits((2 * rem) % d, d, 2 * acc + ((2 * rem) \div d), n - 1)

\* (float)a / d for whole numbers 0 <= a < d: the float nearest to the
\* quotient as <<m, k>>, the number m / 2^k.
FloatRatio(a, d) ==
  IF a = 0 THEN <<0, 0>>
  ELSE LET e == RatioShift(a, d, 0)
           b == RatioBits(a * Pow2(e) - d, d, 1, 23)
           up == 2 * b[2] > d \/ (2 * b[2] = d /\ b[1] % 2 = 1)
       IN  <<IF up THEN b[1] + 1 ELSE b[1], e + 23>>

\* (int)(15 * fadeRatio) with fadeRatio = 1.0 - (float)elapsedTime /
\* GROUND_FLASH_DURATION_MS, each operation rounded to float.
FadeIntensity(elapsedTime) ==
  LET q == FloatRatio(elapsedTime, GROUND_FLASH_DURATION_MS)
      one == Pow2(q[2])
      fadeRatio == RoundToFloat(one - q[1])
  IN  RoundToFloat(MAX_BRIGHTNESS * fadeRatio) \div one

\* void RainEffect::updateGroundImpactFlashes(): the flashes afterwards.
updateGroundImpactFlashes(flashes, now) ==
  [i \in 1 .. Len(flashes) |->
     LET f == flashes[i]
         elapsedTime == now - f.flashStartTime
     IN  IF ~f.isActive THEN f
         ELSE IF elapsedTime >= GROUND_FLASH_DURATION_MS
           THEN [f EXCEPT !.isActive = FALSE]
         ELSE [f EXCEPT !.brightnessIntensity = FadeIntensity(elapsedTime)]]

\* void RainEffect::initialize().
initialize ==
  /\ lastRaindropSpawnTime' = millisNow
  /\ isInitializedFlag' = TRUE
  /\ rainCall' = "initialize"
  /\ UNCHANGED <<millisNow, raindropArray, groundFlashArray>>
  /\ UNCHANGED <<storeVars, filterVars, is24Hour, pc, bhist, baudVars>>

\* void RainEffect::update(); x and speed are the values random() returns
\* if a raindrop is spawned.
update(x, speed) ==
  /\ rainCall' = "update"
  /\ IF ~isInitializedFlag
       THEN UNCHANGED <<lastRaindropSpawnTime, raindropArray, groundFlashArray>>
     ELSE LET spawns == millisNow - lastRaindropSpawnTime >= RAIN_SPAWN_INTERVAL_MS
              spawned == IF spawns
                           THEN spawnNewRaindrop(raindropArray, x, speed, millisNow)
                           ELSE raindropArray
              fallen == updateFallingRaindrops(spawned, groundFlashArray, 1, millisNow)
          IN  /\ lastRaindropSpawnTime' = IF spawns THEN millisNow
                                          ELSE lastRaindropSpawnTime
              /\ raindropArray' = fallen[1]
              /\ groundFlashArray' = updateGroundImpactFlashes(fallen[2], millisNow)
  /\ UNCHANGED <<millisNow, isInitializedFlag>>
  /\ UNCHANGED <<storeVars, filterVars, is24Hour, pc, bhist, baudVars>>

\* millis() advances by one tick.
MillisAdvance ==
  /\ millisNow < MaxRainTicks * RAIN_TICK_MS
  /\ millisNow' = millisNow + RAIN_TICK_MS
  /\ rainCall' = "none"
  /\ UNCHANGED <<lastRaindropSpawnTime, isInitializedFlag, raindropArray,
                 groundFlashArray>>
  /\ UNCHANGED <<storeVars, filterVars, is24Hour, pc, bhist, baudVars>>

InitRain == InitUnwritten(ErasedStorage, TRUE)

NextRain ==
  \/ initialize
  \/ \E x \in {0, MaxColumn} :
       \E speed \in {RAIN_FALL_SPEED_MIN_MS, RAIN_FALL_SPEED_MAX_MS} :
         update(x, speed)
  \/ MillisAdvance

SpecRain == InitRain /\ [][NextRain]_vars

\* ------------------------------------------------------------------------
\* Well-formedness of the model
\* ------------------------------------------------------------------------
TypeOK ==
  /\ eeprom \in [Addresses -> 0 .. (UINT8_MOD - 1)]
  /\ nextSequence \in [WLDataType -> 0 .. (UINT16_MOD - 1)]
  /\ currentSlot \in [WLDataType -> Slots]
  /\ begun \in BOOLEAN
  /\ latReadings \in [BufferIndexes -> Int]
  /\ lonReadings \in [BufferIndexes -> Int]
  /\ altReadings \in [BufferIndexes -> Int]
  /\ currentIndex \in BufferIndexes
  /\ totalReadings \in 0 .. GPS_FILTER_WINDOW_SIZE
  /\ gpsModule.locationValid \in BOOLEAN
  /\ gpsModule.altitudeValid \in BOOLEAN
  /\ is24Hour \in BOOLEAN
  /\ pc \in {"off", "startup", "running"}
  /\ gpsBaudDetectionComplete \in BOOLEAN
  /\ currentGpsBaudRate \in {GPS_BAUD_RATES[i] : i \in 1 .. GPS_BAUD_RATES_COUNT}
                              \cup {DEFAULT_GPS_BAUD_RATE}
  /\ currentBaudRateIndex \in 0 .. GPS_BAUD_RATES_COUNT
  /\ baudTestStarted \in BOOLEAN
  /\ baudTestElapsed \in 0 .. TestTicks
  /\ validGpsSentencesCount \in 0 .. (GPS_MIN_VALID_SENTENCES + MaxSentences - 1)
  /\ millisNow \in Nat
  /\ lastRaindropSpawnTime \in 0 .. millisNow
  /\ isInitializedFlag \in BOOLEAN
  /\ Len(raindropArray) = MAX_RAINDROPS
  /\ Len(groundFlashArray) = MAX_GROUND_FLASHES
  /\ \A i \in 1 .. MAX_GROUND_FLASHES :
       groundFlashArray[i].brightnessIntensity \in 0 .. MAX_BRIGHTNESS
  /\ rainCall \in {"none", "initialize", "update"}

\* In the first session on erased storage, before any wrap, slot j holds the
\* sequence of the last write that went to it, and a storage written by the
\* write functions with the pattern values is WornStorage: the closed form
\* agrees with what the write functions leave.
WornStorageAgrees ==
  /\ \A dt \in WLDataType :
       (hist.fromErased /\ ~hist.multi[dt] /\ ~hist.wrapped[dt]) =>
         \A j \in Slots :
           readSlotSequence(eeprom, dt, j) = LastWriteTo(hist.nWrites[dt], j)
  /\ hist.steps = 0 =>
     \A k \in {1, WL_NUM_SLOTS + 1, LAST_SEQUENCE - 1} : \A dt \in WLDataType :
       LET j == (k + 1) % WL_NUM_SLOTS
           written == writeSlot(WornStorage(k), dt, j, k + 1,
                                ValueBytes(dt, PatternValue(dt, k + 1)))
       IN  \A off \in 0 .. (WL_NUM_SLOTS * slotConfig[dt].slotSize - 1) :
             written[slotConfig[dt].startAddr + off] = WornByte(dt, k + 1, off)

\* ------------------------------------------------------------------------
\* Vocabulary of the properties
\* ------------------------------------------------------------------------
\* The value read() returns when it finds nothing valid.
DefaultValue(dataType) == IF dataType = WL_TIME_FORMAT THEN 0 ELSE U32(0)

\* A value is valid for its type: a format in {0,1}, a count below the
\* ceiling of the reader.
ValidValue(dataType, value) ==
  IF dataType = WL_TIME_FORMAT THEN ValidTimeFormat(value)
  ELSE ValidPowerCycleCount(value)

\* The last step was a write call of data type dt.
WasWriteCall(op, dt) ==
  /\ op.op \in {"writeTimeFormat", "writePowerCycleCount"}
  /\ op.dt = dt

\* The slots of a data type whose sequence the scan takes as valid, and
\* those of them in the high and in the low region of the heuristic.
ValidSlots(mem, dt) ==
  {j \in Slots : readSlotSequence(mem, dt, j) # WL_INVALID_SEQUENCE}
HighSlots(mem, dt) ==
  {j \in ValidSlots(mem, dt) : readSlotSequence(mem, dt, j) > WRAP_HIGH}
LowSlots(mem, dt) ==
  {j \in ValidSlots(mem, dt) : readSlotSequence(mem, dt, j) < WRAP_LOW}

\* Every slot of the data type holds sequence 0 or the erased 0xFFFF.
AllInvalid(mem, dt) ==
  \A j \in Slots :
    EepromGet16(mem, getSlotAddress(dt, j)) \in {WL_INVALID_SEQUENCE, ERASED_SEQUENCE}

\* The sequence field of slot j holds 0 or the erased 0xFFFF.
StoredInvalid(mem, dt, j) ==
  EepromGet16(mem, getSlotAddress(dt, j)) \in {WL_INVALID_SEQUENCE, ERASED_SEQUENCE}

\* Slot indexes past the last slot, up to the largest uint8_t.
SlotsOutOfRange == {WL_NUM_SLOTS, WL_NUM_SLOTS + 1, UINT8_MOD - 1}

\* The calls that only read.
ReadOnlyCalls == {"readTimeFormat", "readPowerCycleCount", "getDebugInfo"}

\* How often slot j occurs among targets[lo .. hi].
TargetCount(targets, lo, hi, j) ==
  Cardinality({i \in lo .. hi : targets[i] = j})

\* The three channels of the filter; for each its buffer, the raw value and
\* validity the GPS object reports for it, the result of its getFiltered
\* function in the current state, and the name of the call.
Channels == {"lat", "lng", "feet"}

ChannelReadings(ch) ==
  IF ch = "lat" THEN latReadings
  ELSE IF ch = "lng" THEN lonReadings ELSE altReadings

ChannelRaw(ch) ==
  IF ch = "lat" THEN gpsModule.lat
  ELSE IF ch = "lng" THEN gpsModule.lng ELSE gpsModule.feet

ChannelValid(ch) ==
  IF ch = "feet" THEN gpsModule.altitudeValid ELSE gpsModule.locationValid

ChannelResult(ch) ==
  IF ch = "lat" THEN getFilteredLatitude(latReadings, totalReadings, gpsModule)
  ELSE IF ch = "lng" THEN getFilteredLongitude(lonReadings, totalReadings, gpsModule)
  ELSE getFilteredAltitude(altReadings, totalReadings, gpsModule)

ChannelCall(ch) ==
  IF ch = "lat" THEN "getFilteredLatitude"
  ELSE IF ch = "lng" THEN "getFilteredLongitude" ELSE "getFilteredAltitude"

\* The last step called getFiltered of channel ch.
CalledFiltered(ch) == filterOp.op = ChannelCall(ch)

\* The samples of a channel that update() has stored, oldest first, and the
\* last m of them.
AcceptedOf(ch) ==
  [i \in 1 .. Len(fhist.accepted) |->
     IF ch = "lat" THEN fhist.accepted[i].lat
     ELSE IF ch = "lng" THEN fhist.accepted[i].lng ELSE fhist.accepted[i].feet]

Recent(ch, m) ==
  [i \in 1 .. m |-> AcceptedOf(ch)[Len(fhist.accepted) - m + i]]

\* The samples of a channel that its getFiltered function works on.
Buffered(ch) == WorkingCopy(ChannelReadings(ch), totalReadings)

\* Two sequences hold the same values the same number of times.
SameMultiset(a, b) ==
  /\ Len(a) = Len(b)
  /\ \A i \in DOMAIN a :
       Cardinality({j \in DOMAIN a : a[j] = a[i]})
         = Cardinality({j \in DOMAIN b : b[j] = a[i]})

\* The values of s in ascending order: the value of rank p is the one with
\* fewer than p values below it and at least p values not above it.
Ascending(s) ==
  [p \in 1 .. Len(s) |->
     LET i == CHOOSE i \in DOMAIN s :
                /\ Cardinality({j \in DOMAIN s : s[j] < s[i]}) < p
                /\ Cardinality({j \in DOMAIN s : s[j] <= s[i]}) >= p
     IN  s[i]]

\* The number of samples dropped at each end when n are buffered.
TrimCount(n) == IF n > 5 THEN n \div 5 ELSE 0

RECURSIVE SumOf(_, _, _)
\* The sum of s[lo .. hi].
SumOf(s, lo, hi) == IF lo > hi THEN 0 ELSE s[lo] + SumOf(s, lo + 1, hi)

\* The mean of the ascending values of s at the positions [t, n - t),
\* counted from 0.
TrimmedMeanOf(s) ==
  LET n == Len(s)
      t == TrimCount(n)
  IN  Float(SumOf(Ascending(s), t + 1, n - t), n - 2 * t)

\* The smaller of two numbers.
Min(a, b) == IF a < b THEN a ELSE b

\* ------------------------------------------------------------------------
\* The filter after feeds of any sign
\* ------------------------------------------------------------------------
\* The feeds: the positions of the samples update() has stored, oldest
\* first.  Cyclic feeds ((a * i + b) mod m) - c over ranges that are all
\* positive or zero, of both signs, and all negative, with repeated values
\* once the feed is longer than the range; strictly rising and falling
\* feeds around a centre; and every feed of up to ShortFeed values over
\* {-1, 0, 1}.
FeedLengths == 0 .. GPS_FILTER_WINDOW_SIZE
ShortFeed == 4
SortRange == 2 * MaxSortValue + 1

CyclicFeeds ==
  {[i \in 1 .. n |-> ((a * i + b) % SortRange) - c] :
     n \in FeedLengths, a \in 0 .. (SortRange - 1), b \in 0 .. (SortRange - 1),
     c \in {0, MaxSortValue, SortRange}}

MonotoneFeeds ==
  {[i \in 1 .. n |-> s * (i - c)] :
     n \in FeedLengths, s \in {0 - 1, 1},
     c \in {0, GPS_FILTER_WINDOW_SIZE \div 2, GPS_FILTER_WINDOW_SIZE + 1}}

ShortFeeds == UNION {[1 .. n -> {0 - 1, 0, 1}] : n \in 0 .. ShortFeed}

Feeds == CyclicFeeds \cup MonotoneFeeds \cup ShortFeeds

\* The filter after update() has stored the samples of a feed of at most
\* GPS_FILTER_WINDOW_SIZE positions, the GPS object still reporting the last.
InitFedWith(feed, Reading(_)) ==
  LET n == Len(feed)
  IN  /\ latReadings = [i \in BufferIndexes |-> IF i < n THEN Reading(feed[i + 1]).lat ELSE 0]
      /\ lonReadings = [i \in BufferIndexes |-> IF i < n THEN Reading(feed[i + 1]).lng ELSE 0]
      /\ altReadings = [i \in BufferIndexes |-> IF i < n THEN Reading(feed[i + 1]).feet ELSE 0]
      /\ currentIndex = NextIndex(n - 1)
      /\ totalReadings = n
      /\ gpsModule = IF n = 0 THEN GpsNoFix
                     ELSE [locationValid |-> TRUE, altitudeValid |-> TRUE,
                           lat |-> Reading(feed[n]).lat, lng |-> Reading(feed[n]).lng,
                           feet |-> Reading(feed[n]).feet]
      /\ filterOp = IF n = 0 THEN [op |-> "construct", ret |-> NoValue]
                    ELSE [op |-> "update", ret |-> TRUE]
      /\ fhist = [accepted |-> [i \in 1 .. n |-> Reading(feed[i])],
                  pending |-> FALSE, odd |-> 0]

\* The filter after update() has stored the samples of the positions of a
\* feed.
InitFed(feed) == InitFedWith(feed, Sample)

InitSort ==
  /\ eeprom = ErasedStorage
  /\ nextSequence = ConstructorSequence
  /\ currentSlot = ConstructorSlot
  /\ begun = FALSE
  /\ lastOp = Op("construct", NoValue, NoValue, FALSE, NoValue, NoValue, NoValue)
  /\ hist = HistInit(TRUE, 0)
  /\ \E feed \in Feeds : InitFed(feed)
  /\ InitClock

\* sortFloatArray(workingBuffer, readingsToProcess), called on the working
\* copy of a channel's buffer: the array it leaves.
SortWorkingBuffer(ch) ==
  /\ filterOp' = [op |-> "sortFloatArray",
                   ret |-> [channel |-> ch,
                            arr |-> sortFloatArray(
                                      WorkingCopy(ChannelReadings(ch), totalReadings),
                                      totalReadings)]]
  /\ UNCHANGED <<latReadings, lonReadings, altReadings, currentIndex,
                 totalReadings, gpsModule, fhist, storeVars, clockVars>>

NextSort ==
  \/ \E ch \in Channels : SortWorkingBuffer(ch)
  \/ GetFilteredLatitude
  \/ GetFilteredLongitude
  \/ GetFilteredAltitude

SpecSort == InitSort /\ [][NextSort]_vars

\* ------------------------------------------------------------------------
\* The filter after feeds of samples with a full significand
\* ------------------------------------------------------------------------
\* A latitude in units of 2^-18 degrees, the distance of the floats from
\* 32 to 64 degrees: 56.440738... degrees.
FullSignificand == 14795601

\* The sample of a reading n: the same float on the three channels, the
\* longitude with the other sign.
FloatSample(n) == [lat |-> n, lng |-> 0 - n, feet |-> n]

\* The feeds: MIN_READINGS to MaxMeanLen readings, each a small whole
\* number or one of two neighbouring floats with a full significand.
MeanReadings == {2, FullSignificand, FullSignificand + 1}
MeanFeeds ==
  UNION {[1 .. n -> MeanReadings] : n \in GPS_FILTER_MIN_READINGS .. MaxMeanLen}

InitMean ==
  /\ eeprom = ErasedStorage
  /\ nextSequence = ConstructorSequence
  /\ currentSlot = ConstructorSlot
  /\ begun = FALSE
  /\ lastOp = Op("construct", NoValue, NoValue, FALSE, NoValue, NoValue, NoValue)
  /\ hist = HistInit(TRUE, 0)
  /\ \E feed \in MeanFeeds : InitFedWith(feed, FloatSample)
  /\ InitClock

NextMean ==
  \/ GetFilteredLatitude
  \/ GetFilteredLongitude
  \/ GetFilteredAltitude

SpecMean == InitMean /\ [][NextMean]_vars

\* The least and the greatest of the buffered samples of a channel, and the
\* greatest of their absolute values.
MinBuffered(ch) ==
  CHOOSE v \in {Buffered(ch)[i] : i \in 1 .. totalReadings} :
    \A i \in 1 .. totalReadings : v <= Buffered(ch)[i]
MaxBuffered(ch) ==
  CHOOSE v \in {Buffered(ch)[i] : i \in 1 .. totalReadings} :
    \A i \in 1 .. totalReadings : v >= Buffered(ch)[i]
MaxMagnitude(ch) ==
  IF 0 - MinBuffered(ch) > MaxBuffered(ch) THEN 0 - MinBuffered(ch) ELSE MaxBuffered(ch)

\* The float result f is at least, at most the whole number m.
FloatAtLeast(f, m) == m <= f[1] \div f[2]
FloatAtMost(f, m) == (f[1] + f[2] - 1) \div f[2] <= m

\* The sum of the samples a getFiltered function averages, without rounding.
ExactSum(ch) ==
  SumOf(Ascending(Buffered(ch)), TrimCount(totalReadings) + 1,
        totalReadings - TrimCount(totalReadings))

\* The result of the getFiltered function of channel ch were its buffer to
\* hold readings, all else as in the current state.
ChannelResultOn(ch, readings) ==
  IF ch = "lat" THEN getFilteredLatitude(readings, totalReadings, gpsModule)
  ELSE IF ch = "lng" THEN getFilteredLongitude(readings, totalReadings, gpsModule)
  ELSE getFilteredAltitude(readings, totalReadings, gpsModule)

\* The indexes of the buffered samples of a channel, and those that hold a
\* largest and a smallest one.
BufferedIndexes == 0 .. (totalReadings - 1)
LargestAt(ch) ==
  {i \in BufferedIndexes :
     \A j \in BufferedIndexes : ChannelReadings(ch)[j] <= ChannelReadings(ch)[i]}
SmallestAt(ch) ==
  {i \in BufferedIndexes :
     \A j \in BufferedIndexes : ChannelReadings(ch)[j] >= ChannelReadings(ch)[i]}

\* By how much an extreme sample is made more extreme: the least step, and
\* the distance of a bad fix.
ExtremeSteps == {1, OutlierPosition}

\* The EEPROM regions of the memory layout: the cells below the first slot,
\* the slots of the time format, the slots of the power-cycle count.
ReservedRegion == 0 .. 9
TimeFormatRegion == 10 .. 57
PowerCycleRegion == 60 .. 155
RegionOf(dataType) ==
  IF dataType = WL_TIME_FORMAT THEN TimeFormatRegion ELSE PowerCycleRegion

\* The cells of slot j of a data type: sequence number and payload.
SlotCells(dataType, j) ==
  getSlotAddress(dataType, j)
    .. (getSlotAddress(dataType, j) + slotConfig[dataType].slotSize - 1)

\* The payload bytes of slot j of a data type, as a value of the type.
StoredPayload(mem, dt, j) ==
  BytesValue(dt, [i \in 1 .. slotConfig[dt].dataSize |->
                    mem[getSlotAddress(dt, j) + WL_SEQUENCE_SIZE + i - 1]])

\* The slots other than j that hold a valid sequence number and a payload
\* that is valid for the type and is not the default.
OtherGoodSlots(mem, dt, j) ==
  {k \in ValidSlots(mem, dt) \ {j} :
     /\ ValidValue(dt, StoredPayload(mem, dt, k))
     /\ StoredPayload(mem, dt, k) # DefaultValue(dt)}

\* The last step was a read call of data type dt.
WasReadCall(op, dt) ==
  /\ op.op \in {"readTimeFormat", "readPowerCycleCount"}
  /\ op.dt = dt

\* The result of the getFiltered function of channel ch on an object with
\* the given members.
ChannelResultOf(ch, lat, lon, alt, total, gps) ==
  IF ch = "lat" THEN getFilteredLatitude(lat, total, gps)
  ELSE IF ch = "lng" THEN getFilteredLongitude(lon, total, gps)
  ELSE getFilteredAltitude(alt, total, gps)

\* The sequence is in ascending order.
IsAscending(s) == \A p \in 1 .. (Len(s) - 1) : s[p] <= s[p + 1]

\* The last step sorted the working copy of channel ch.
CalledSort(ch) == filterOp.op = "sortFloatArray" /\ filterOp.ret.channel = ch

\* ------------------------------------------------------------------------
\* Properties
\* ------------------------------------------------------------------------

\* C1: starting from erased storage, after begin() and any sequence of valid
\* writes v1..vK to one data type made in one session without the sequence
\* number wrapping, read() returns vK: in the writing session right after
\* each write, and in a fresh instance after begin().
C1_RecoveryRoundTrip ==
  \A dt \in WLDataType :
    (/\ hist.fromErased
     /\ hist.hasValid[dt]
     /\ ~hist.invalidStored[dt]
     /\ ~hist.multi[dt]
     /\ ~hist.wrapped[dt])
    => /\ ReadValue(eeprom, dt) = hist.lastValid[dt]
       /\ (lastOp.op \in {"readTimeFormat", "readPowerCycleCount"} /\ lastOp.dt = dt)
            => lastOp.ret = hist.lastValid[dt]

\* C1 witness: erased storage, writeTimeFormat(0) then writeTimeFormat(1) in
\* one session, a restart with begin(), and readTimeFormat() returned 1.
C1_Witness ==
  /\ hist.fromErased
  /\ hist.nWrites[WL_TIME_FORMAT] = 2
  /\ hist.steps = 2
  /\ hist.fresh[WL_TIME_FORMAT]
  /\ readSlot(eeprom, WL_TIME_FORMAT, 1) = [ok |-> TRUE, data |-> 0]
  /\ lastOp.op = "readTimeFormat"
  /\ lastOp.ret = 1

\* C2: for any sequence of valid writes to one data type, with restarts
\* interleaved anywhere and the sequence number allowed to wrap, read()
\* returns the value of the most recent valid write.
C2_RecoveryAcrossWrap ==
  \A dt \in WLDataType :
    (hist.hasValid[dt] /\ ~hist.invalidStored[dt])
      => ReadValue(eeprom, dt) = hist.lastValid[dt]

\* C3: whenever some valid slot holds a sequence above 0xF000 and some valid
\* slot one below 0x1000, the latest-slot scan selects the low-region slot
\* with the largest sequence number.
C3_WraparoundScan ==
  \A dt \in WLDataType :
    (HighSlots(eeprom, dt) # {} /\ LowSlots(eeprom, dt) # {})
      => LET latest == findLatestSlot(eeprom, dt)
         IN  /\ latest \in LowSlots(eeprom, dt)
             /\ \A j \in LowSlots(eeprom, dt) :
                  readSlotSequence(eeprom, dt, j) <= readSlotSequence(eeprom, dt, latest)

\* C4: within one session the i-th valid write to a data type targets slot
\* (s0 + i) mod N, no two consecutive valid writes target the same slot, and
\* over any run of consecutive valid writes the per-slot counts differ by at
\* most one.
C4_WearRotation ==
  \A dt \in WLDataType :
    LET targets == hist.sessTargets[dt]
    IN  /\ (WasWriteCall(lastOp, dt) /\ lastOp.done /\ ValidValue(dt, lastOp.arg))
             => lastOp.slot = (hist.s0[dt] + hist.sessValid[dt]) % WL_NUM_SLOTS
        /\ \A i \in 1 .. (Len(targets) - 1) : targets[i] # targets[i + 1]
        /\ \A lo \in 1 .. Len(targets) : \A hi \in lo .. Len(targets) :
             \A j1 \in Slots : \A j2 \in Slots :
               TargetCount(targets, lo, hi, j1) - TargetCount(targets, lo, hi, j2) <= 1

\* C5: a valid write targets slot (currentSlot + 1) mod N, and that slot is
\* never the one the latest-slot scan selects at the moment of the write.
C5_WriteSparesLatest ==
  [][\A dt \in WLDataType :
       (WasWriteCall(lastOp', dt) /\ lastOp'.done /\ ValidValue(dt, lastOp'.arg))
         => /\ lastOp'.slot = (currentSlot[dt] + 1) % WL_NUM_SLOTS
            /\ lastOp'.slot # findLatestSlot(eeprom, dt)]_vars

\* C6: sequence number 0 is never stored by a write: nextSequence is never 0,
\* and no write passed 0 to the slot write.
C6_ZeroNeverAssigned ==
  /\ \A dt \in WLDataType : nextSequence[dt] # WL_INVALID_SEQUENCE
  /\ lastOp.done => lastOp.seq # WL_INVALID_SEQUENCE

\* C6 witness: a write whose increment of nextSequence overflowed the 16 bits
\* (it carried 0xFFFF) and left nextSequence at 1.
C6_Witness ==
  /\ lastOp.done
  /\ lastOp.seq = ERASED_SEQUENCE
  /\ nextSequence[lastOp.dt] = 1

\* C7: nextSequence is never 0 nor 0xFFFF, so the slot a write has just
\* written is taken as valid by the next scan.
C7_SequenceSkipsEmpty ==
  /\ \A dt \in WLDataType :
       nextSequence[dt] \notin {WL_INVALID_SEQUENCE, ERASED_SEQUENCE}
  /\ lastOp.done =>
       readSlotSequence(eeprom, lastOp.dt, lastOp.slot) # WL_INVALID_SEQUENCE

\* C8: writeTimeFormat(f) with f outside {0,1} changes neither the storage
\* nor currentSlot nor nextSequence of either data type, and the next
\* readTimeFormat() returns what it returned before.
C8_InvalidFormatIsNoOp ==
  [][(lastOp'.op = "writeTimeFormat" /\ lastOp'.arg \notin {0, 1})
       => /\ eeprom' = eeprom
          /\ currentSlot' = currentSlot
          /\ nextSequence' = nextSequence
          /\ readTimeFormat(eeprom') = readTimeFormat(eeprom)]_vars

\* C8 witness: writeTimeFormat(2) was called after a write of format 1, and
\* readTimeFormat() still returns 1.
C8_Witness ==
  /\ lastOp.op = "writeTimeFormat"
  /\ lastOp.arg = 2
  /\ hist.steps > 0
  /\ hist.lastValid[WL_TIME_FORMAT] = 1
  /\ readTimeFormat(eeprom) = 1

\* C9: for every data type a write of an invalid value (a format outside
\* {0,1}, a count at or above 0xFFFFFF00) writes no slot, leaves currentSlot
\* and nextSequence unchanged, and the next read returns what it did before.
C9_InvalidValueIsNoOp ==
  [][\A dt \in WLDataType :
       (WasWriteCall(lastOp', dt) /\ ~ValidValue(dt, lastOp'.arg))
         => /\ eeprom' = eeprom
            /\ currentSlot' = currentSlot
            /\ nextSequence' = nextSequence
            /\ ReadValue(eeprom', dt) = ReadValue(eeprom, dt)]_vars

\* C10: when every slot of a data type holds an invalid sequence (0 or the
\* erased 0xFFFF), begin() leaves currentSlot = 0 and nextSequence = 1 for
\* it and read() returns the default 0.
C10_DefaultOnEmpty ==
  \A dt \in WLDataType :
    AllInvalid(eeprom, dt)
      => /\ ReadValue(eeprom, dt) = DefaultValue(dt)
         /\ lastOp.op = "begin" => (currentSlot[dt] = 0 /\ nextSequence[dt] = 1)
         /\ (lastOp.op \in {"readTimeFormat", "readPowerCycleCount"} /\ lastOp.dt = dt)
              => lastOp.ret = DefaultValue(dt)

\* C10 witness: begin() has run on storage whose slots hold sequence 0 with
\* a plausible payload or are erased.
C10_Witness ==
  /\ eeprom = BlankStorage
  /\ \A dt \in WLDataType : AllInvalid(eeprom, dt)
  /\ readSlotUnchecked(eeprom, WL_TIME_FORMAT, 0).data = 1
  /\ lastOp.op = "begin"

\* C11: for arbitrary storage contents readTimeFormat() returns a value in
\* {0,1} and readPowerCycleCount() a value below 0xFFFFFF00: as functions of
\* the storage, and as the results the calls returned.
C11_ReadsInRange ==
  /\ readTimeFormat(eeprom) \in {0, 1}
  /\ U32Less(readPowerCycleCount(eeprom), POWER_CYCLE_CEILING)
  /\ lastOp.op = "readTimeFormat" => lastOp.ret \in {0, 1}
  /\ lastOp.op = "readPowerCycleCount" => U32Less(lastOp.ret, POWER_CYCLE_CEILING)

\* C11 witness: the slot the scan selects holds a valid sequence and a count
\* at or above the ceiling, put there from outside, and readPowerCycleCount()
\* returned 0.
C11_Witness ==
  /\ hist.damage > 0
  /\ LET r == readSlot(eeprom, WL_POWER_CYCLE, findLatestSlot(eeprom, WL_POWER_CYCLE))
     IN  r.ok /\ ~U32Less(r.data, POWER_CYCLE_CEILING)
  /\ lastOp.op = "readPowerCycleCount"
  /\ lastOp.ret = U32(0)

\* C12: readTimeFormat(), readPowerCycleCount() and getDebugInfo() leave every
\* storage byte, currentSlot and nextSequence unchanged, and within the life
\* of an instance currentSlot and nextSequence of a data type change only in
\* begin() and in a write of a valid value to that data type.
C12_ReadsHaveNoEffect ==
  [][/\ lastOp'.op \in ReadOnlyCalls
          => /\ eeprom' = eeprom
             /\ currentSlot' = currentSlot
             /\ nextSequence' = nextSequence
     /\ \A dt \in WLDataType :
          (currentSlot'[dt] # currentSlot[dt] \/ nextSequence'[dt] # nextSequence[dt])
            => \/ lastOp'.op \in {"begin", "construct"}
               \/ (WasWriteCall(lastOp', dt) /\ ValidValue(dt, lastOp'.arg))]_vars

\* C13: begin() never modifies the storage, and a begin() that follows a
\* begin() leaves currentSlot and nextSequence of both data types as the
\* first call left them, whatever the storage holds.
C13_BeginIdempotent ==
  [][lastOp'.op = "begin"
       => /\ eeprom' = eeprom
          /\ lastOp.op = "begin"
               => (currentSlot' = currentSlot /\ nextSequence' = nextSequence)]_vars

\* C13 witness: begin() has run twice in a row on storage in which a slot
\* was overwritten from outside, and a valid slot was found.
C13_Witness ==
  /\ lastOp.op = "begin"
  /\ hist.beginRun = 2
  /\ hist.damage > 0
  /\ \E dt \in WLDataType : nextSequence[dt] > 1 /\ currentSlot[dt] > 0

\* C14: after a write of a valid value, getDebugInfo reports the slot just
\* written and the sequence number that write stored in it, also after the
\* write that wrapped nextSequence to 1.
C14_DebugInfoReportsLastWrite ==
  \A dt \in WLDataType :
    (begun /\ ~hist.fresh[dt] /\ hist.lastSlot[dt] # NoValue /\ hist.lastOk[dt])
      => LET stored == EepromGet16(eeprom, getSlotAddress(dt, hist.lastSlot[dt]))
         IN  /\ getDebugInfo(currentSlot, nextSequence, dt)
                  = [slot |-> hist.lastSlot[dt], seq |-> stored]
             /\ (lastOp.op = "getDebugInfo" /\ lastOp.dt = dt)
                  => (lastOp.slot = hist.lastSlot[dt] /\ lastOp.seq = stored)

\* C15: in every state reached from erased storage by begin(), writes of
\* valid values and restarts, no two slots of a data type hold the same valid
\* sequence number, so exactly one valid slot holds the sequence number of
\* the slot the scan selects.
C15_UniqueSequences ==
  \A dt \in WLDataType :
    (hist.fromErased /\ ~hist.invalidStored[dt])
      => /\ \A j1 \in ValidSlots(eeprom, dt) : \A j2 \in ValidSlots(eeprom, dt) :
              j1 # j2 => readSlotSequence(eeprom, dt, j1) # readSlotSequence(eeprom, dt, j2)
         /\ ValidSlots(eeprom, dt) # {}
              => Cardinality({j \in ValidSlots(eeprom, dt) :
                    readSlotSequence(eeprom, dt, j)
                      = readSlotSequence(eeprom, dt, findLatestSlot(eeprom, dt))}) = 1

\* C15 witness: the sequence numbers have wrapped, the writes span more than
\* one session, a restart with begin() came last, and slots of the high and
\* of the low region are both present.
C15_Witness ==
  /\ hist.fromErased
  /\ hist.wrapped[WL_TIME_FORMAT]
  /\ hist.multi[WL_TIME_FORMAT]
  /\ hist.fresh[WL_TIME_FORMAT]
  /\ HighSlots(eeprom, WL_TIME_FORMAT) # {}
  /\ Cardinality(LowSlots(eeprom, WL_TIME_FORMAT)) > 1

\* C16: a slot whose sequence field holds 0 or 0xFFFF is never the one the
\* scan selects when some slot of the data type holds a valid sequence, and
\* readSlot fails for such a slot and for every slot index >= N.
C16_InvalidSlotsSkipped ==
  \A dt \in WLDataType :
    /\ (\E j \in Slots : ~StoredInvalid(eeprom, dt, j))
         => ~StoredInvalid(eeprom, dt, findLatestSlot(eeprom, dt))
    /\ \A j \in Slots : StoredInvalid(eeprom, dt, j) => ~readSlot(eeprom, dt, j).ok
    /\ \A j \in SlotsOutOfRange : ~readSlot(eeprom, dt, j).ok

\* C16 witness: only the last slot of the time format holds a valid sequence,
\* put there from outside with format 1; the fifteen slots scanned before it
\* are erased, and readTimeFormat() returned 1.
C16_Witness ==
  /\ hist.damage > 0
  /\ ValidSlots(eeprom, WL_TIME_FORMAT) = {WL_NUM_SLOTS - 1}
  /\ StoredInvalid(eeprom, WL_TIME_FORMAT, 0)
  /\ lastOp.op = "readTimeFormat"
  /\ lastOp.ret = 1

\* C17: while update() has accepted fewer than 3 samples (0, 1 or 2), the
\* getFiltered function of each channel returns exactly the raw value the
\* GPS object reports for that channel.
C17_ColdStartRaw ==
  Len(fhist.accepted) < 3 =>
    \A ch \in Channels :
      /\ ChannelResult(ch) = Float(ChannelRaw(ch), 1)
      /\ CalledFiltered(ch) => filterOp.ret = Float(ChannelRaw(ch), 1)

\* C17 witness: two samples are stored (longitudes -1 and -2, mean -1.5),
\* the GPS object reports a third one, and getFilteredLongitude() returned
\* its longitude -3.
C17_Witness ==
  /\ Len(fhist.accepted) = 2
  /\ fhist.accepted[1] # fhist.accepted[2]
  /\ fhist.pending
  /\ gpsModule.locationValid
  /\ filterOp.op = "getFilteredLongitude"
  /\ filterOp.ret = Float(0 - 3, 1)

\* C18: the raw path is taken if and only if fewer than 3 samples are
\* collected: whenever totalReadings >= 3, whatever the GPS object reports,
\* the getFiltered function of each channel returns the trimmed mean of the
\* buffered samples, not the raw value.
C18_FilteredFromThree ==
  \A ch \in Channels :
    /\ TakesRawPath(totalReadings, ChannelValid(ch)) <=> totalReadings < 3
    /\ (totalReadings >= 3 /\ CalledFiltered(ch))
         => FloatEq(filterOp.ret, TrimmedMeanOf(Buffered(ch)))

\* C19: on the filtering path with n buffered samples, 3 <= n <= 12, the
\* result is the mean of the ascending samples at the positions [t, n - t)
\* with t = n div 5 if n > 5 and t = 0 otherwise; that range holds
\* n - 2t >= 3 samples; and for the samples 1 .. 12 the averaged values are
\* 3 .. 10 and the result is 52 / 8.
C19_TrimmingRule ==
  \A ch \in Channels :
    (CalledFiltered(ch) /\ ~TakesRawPath(totalReadings, ChannelValid(ch)))
      => LET s == Buffered(ch)
             n == Len(s)
             t == TrimCount(n)
         IN  /\ n >= 3 /\ n <= 12
             /\ n - 2 * t >= 3
             /\ FloatEq(filterOp.ret, TrimmedMeanOf(s))
             /\ Ascending(s) = [p \in 1 .. 12 |-> p]
                  => /\ [p \in 1 .. (n - 2 * t) |-> Ascending(s)[t + p]]
                          = [p \in 1 .. 8 |-> p + 2]
                     /\ FloatEq(filterOp.ret, Float(52, 8))

\* C19 witness: update() stored the latitudes 1 .. 12 in this order and
\* getFilteredLatitude() returned 6.5.
C19_Witness ==
  /\ AcceptedOf("lat") = [p \in 1 .. 12 |-> p]
  /\ gpsModule.locationValid
  /\ filterOp.op = "getFilteredLatitude"
  /\ FloatEq(filterOp.ret, Float(13, 2))

\* C20: after k accepted update() calls getTotalReadings() is min(k, W),
\* and the samples the getFiltered function of each channel works on are,
\* as a multiset, the last min(k, W) accepted samples of that channel, so a
\* filtered result is the trimmed mean of those alone.
C20_RingOverwrite ==
  LET k == Len(fhist.accepted)
      m == Min(k, GPS_FILTER_WINDOW_SIZE)
  IN  /\ totalReadings = m
      /\ filterOp.op = "getTotalReadings" => filterOp.ret = m
      /\ \A ch \in Channels :
           /\ SameMultiset(Buffered(ch), Recent(ch, m))
           /\ (CalledFiltered(ch) /\ ~TakesRawPath(totalReadings, ChannelValid(ch)))
                => FloatEq(filterOp.ret, TrimmedMeanOf(Recent(ch, m)))

\* C20 witness: update() stored the latitudes 1 .. W + 5, the buffer is full
\* and getFilteredLatitude() returned 11.5, the trimmed mean of 6 .. 17.
C20_Witness ==
  /\ AcceptedOf("lat") = [p \in 1 .. (GPS_FILTER_WINDOW_SIZE + 5) |-> p]
  /\ totalReadings = GPS_FILTER_WINDOW_SIZE
  /\ gpsModule.locationValid
  /\ filterOp.op = "getFilteredLatitude"
  /\ FloatEq(filterOp.ret, Float(23, 2))

\* C21: in every state 0 <= totalReadings <= W and 0 <= currentIndex < W, and
\* currentIndex = totalReadings while totalReadings < W; every update() that
\* accepts a sample stores it in the three buffers at the index currentIndex
\* had, changes no other entry, sets currentIndex to (currentIndex + 1) mod W
\* and increments totalReadings unless it is W already.
C21_BufferInvariant ==
  [][/\ totalReadings \in 0 .. GPS_FILTER_WINDOW_SIZE
     /\ totalReadings' \in 0 .. GPS_FILTER_WINDOW_SIZE
     /\ currentIndex \in 0 .. (GPS_FILTER_WINDOW_SIZE - 1)
     /\ currentIndex' \in 0 .. (GPS_FILTER_WINDOW_SIZE - 1)
     /\ totalReadings < GPS_FILTER_WINDOW_SIZE => currentIndex = totalReadings
     /\ totalReadings' < GPS_FILTER_WINDOW_SIZE => currentIndex' = totalReadings'
     /\ (filterOp'.op = "update" /\ filterOp'.ret = TRUE)
          => /\ latReadings'[currentIndex] = gpsModule.lat
             /\ lonReadings'[currentIndex] = gpsModule.lng
             /\ altReadings'[currentIndex] = gpsModule.feet
             /\ \A i \in BufferIndexes \ {currentIndex} :
                  /\ latReadings'[i] = latReadings[i]
                  /\ lonReadings'[i] = lonReadings[i]
                  /\ altReadings'[i] = altReadings[i]
             /\ currentIndex' = (currentIndex + 1) % GPS_FILTER_WINDOW_SIZE
             /\ totalReadings' = IF totalReadings = GPS_FILTER_WINDOW_SIZE
                                   THEN GPS_FILTER_WINDOW_SIZE
                                   ELSE totalReadings + 1]_vars

\* C21 witness: the update() that accepted sample W + 1 stored it at index 0
\* of the three full buffers and moved currentIndex to 1.
C21_Witness ==
  /\ filterOp.op = "update"
  /\ filterOp.ret = TRUE
  /\ AcceptedOf("lat") = [p \in 1 .. (GPS_FILTER_WINDOW_SIZE + 1) |-> p]
  /\ totalReadings = GPS_FILTER_WINDOW_SIZE
  /\ currentIndex = 1
  /\ latReadings[0] = Sample(GPS_FILTER_WINDOW_SIZE + 1).lat
  /\ lonReadings[0] = Sample(GPS_FILTER_WINDOW_SIZE + 1).lng
  /\ altReadings[0] = Sample(GPS_FILTER_WINDOW_SIZE + 1).feet
  /\ latReadings[1] = Sample(2).lat

\* C22: for every array of 0 .. W values of any sign, repeated values
\* included, sortFloatArray ends and leaves the same values in ascending
\* order; so on the filtering path the values left out of the mean are the
\* numerically smallest and largest ones, whatever their sign.
C22_SortAscendingPermutation ==
  \A ch \in Channels :
    LET input == Buffered(ch)
        sorted == sortFloatArray(input, Len(input))
    IN  /\ IsAscending(sorted)
        /\ SameMultiset(sorted, input)
        /\ CalledSort(ch)
             => /\ IsAscending(filterOp.ret.arr)
                /\ SameMultiset(filterOp.ret.arr, input)
        /\ (CalledFiltered(ch) /\ ~TakesRawPath(totalReadings, ChannelValid(ch)))
             => FloatEq(filterOp.ret, TrimmedMeanOf(input))

\* C22 witness: sortFloatArray was called on twelve latitudes that hold
\* negative values, zero, positive values and repeated values, in an order
\* that is not ascending, and left them ascending from -2 to 2.
C22_Witness ==
  /\ CalledSort("lat")
  /\ totalReadings = GPS_FILTER_WINDOW_SIZE
  /\ ~IsAscending(Buffered("lat"))
  /\ \E i \in 1 .. totalReadings : Buffered("lat")[i] < 0
  /\ \E i \in 1 .. totalReadings : Buffered("lat")[i] = 0
  /\ \E i \in 1 .. totalReadings : Buffered("lat")[i] > 0
  /\ filterOp.ret.arr[1] = 0 - 2
  /\ filterOp.ret.arr[2] = 0 - 2
  /\ filterOp.ret.arr[GPS_FILTER_WINDOW_SIZE] = 2

\* C23: on the filtering path with n >= 6 buffered samples the result of a
\* getFiltered function is the same in any state that differs only in that
\* one largest sample is larger still, or one smallest sample smaller still.
C23_OutlierRejection ==
  \A ch \in Channels :
    (/\ CalledFiltered(ch)
     /\ totalReadings >= 6
     /\ ~TakesRawPath(totalReadings, ChannelValid(ch)))
      => LET r == ChannelReadings(ch)
         IN  \A d \in ExtremeSteps :
               /\ \A i \in LargestAt(ch) :
                    FloatEq(ChannelResultOn(ch, [r EXCEPT ![i] = @ + d]), filterOp.ret)
               /\ \A i \in SmallestAt(ch) :
                    FloatEq(ChannelResultOn(ch, [r EXCEPT ![i] = @ - d]), filterOp.ret)

\* C23 witness: getFilteredLatitude() was called on the six latitudes
\* 1 .. 6 and returned 3.5, the mean of 2 .. 5; with the 6 replaced by a far
\* fix the function returns 3.5 as well, with the 5 replaced it does not.
C23_Witness ==
  /\ CalledFiltered("lat")
  /\ gpsModule.locationValid
  /\ totalReadings = 6
  /\ AcceptedOf("lat") = [p \in 1 .. 6 |-> p]
  /\ FloatEq(filterOp.ret, Float(7, 2))
  /\ FloatEq(ChannelResultOn("lat", [latReadings EXCEPT ![5] = @ + OutlierPosition]),
             Float(7, 2))
  /\ ~FloatEq(ChannelResultOn("lat", [latReadings EXCEPT ![4] = @ + OutlierPosition]),
              Float(7, 2))

\* C24: in a run of boots that are each interrupted before the welcome
\* message has finished, a boot toggles the time format exactly when the
\* count it stores reaches the threshold 5, the count is back at 0 when the
\* toggle has happened, and a toggle comes no sooner than 5 boots after the
\* toggle before it.
C24_ToggleAtThreshold ==
  pc = "startup"
    => /\ bhist.toggled <=> bhist.count = U32(POWER_CYCLE_THRESHOLD)
       /\ bhist.toggled
            => /\ EepromGet32(eeprom, EEPROM_POWER_CYCLE_ADDR) = U32(0)
               /\ bhist.gap >= POWER_CYCLE_THRESHOLD

\* C25: whatever the format byte holds, a boot that toggles leaves in effect
\* the opposite of the format setup() had put in effect from that byte, the
\* byte stored is 0 or 1 and stands for the new format, and the setup() of
\* the next boot puts that format in effect.
C25_ToggleFlipsAndPersists ==
  [][(pc = "off" /\ pc' = "startup")
       => /\ bhist'.toggled
               => /\ is24Hour' = ~bhist'.before
                  /\ eeprom'[EEPROM_TIME_FORMAT_ADDR] \in {0, 1}
                  /\ (eeprom'[EEPROM_TIME_FORMAT_ADDR] = 1) <=> is24Hour'
          /\ bhist.toggled => bhist'.before = bhist.after]_vars

\* C26: after begin(), and after every write of a valid value that follows
\* it in the session, currentSlot of the data type is the slot the scan
\* selects and nextSequence is the value begin() would compute from the
\* storage, so that a further begin() would change neither.
C26_CacheAgreesWithStorage ==
  \A dt \in WLDataType :
    (/\ begun
     /\ \/ lastOp.op = "begin"
        \/ (WasWriteCall(lastOp, dt) /\ lastOp.done /\ ValidValue(dt, lastOp.arg)))
      => LET latestSlot == findLatestSlot(eeprom, dt)
         IN  /\ currentSlot[dt] = latestSlot
             /\ nextSequence[dt] = BeginSequence(readSlotSequence(eeprom, dt, latestSlot))

\* C27: when a slot write has lost power between two of its byte writes,
\* then after the restart and begin() read() returns the value it returned
\* before that write or the value that was being written, no other.
C27_TornWriteAtomic ==
  \A dt \in WLDataType :
    (hist.torn[dt].is /\ begun)
      => /\ ReadValue(eeprom, dt) \in {hist.torn[dt].old, hist.torn[dt].new}
         /\ (lastOp.op \in {"readTimeFormat", "readPowerCycleCount"} /\ lastOp.dt = dt)
              => lastOp.ret \in {hist.torn[dt].old, hist.torn[dt].new}

\* C28: when the last write of a data type was of a valid value and went to
\* slot s, and begin() has run since (a fresh instance after a restart), the
\* next write of a valid value goes to slot (s + 1) mod N, also after the
\* sequence number has wrapped.
C28_RotationAcrossRestart ==
  [][\A dt \in WLDataType :
       (/\ WasWriteCall(lastOp', dt) /\ lastOp'.done /\ ValidValue(dt, lastOp'.arg)
        /\ hist.fresh[dt]
        /\ hist.lastSlot[dt] # NoValue
        /\ hist.lastOk[dt])
         => lastOp'.slot = (hist.lastSlot[dt] + 1) % WL_NUM_SLOTS]_vars

\* C29: a write of one data type changes EEPROM cells only inside the region
\* of that type (time format 10 .. 57, power-cycle count 60 .. 155) and
\* leaves currentSlot and nextSequence of the other type as they were; the
\* cells 0 .. 9 are not changed; every slot 0 .. N - 1 of a type lies inside
\* the region of its type, and the regions share no cell.
C29_DataTypeIsolation ==
  /\ \A dt \in WLDataType : \A j \in Slots : SlotCells(dt, j) \subseteq RegionOf(dt)
  /\ TimeFormatRegion \cap PowerCycleRegion = {}
  /\ ReservedRegion \cap (TimeFormatRegion \cup PowerCycleRegion) = {}
  /\ \A j1 \in Slots : \A j2 \in Slots :
       SlotCells(WL_TIME_FORMAT, j1) \cap SlotCells(WL_POWER_CYCLE, j2) = {}
  /\ [][\A dt \in WLDataType :
          WasWriteCall(lastOp', dt)
            => /\ \A a \in Addresses \ RegionOf(dt) : eeprom'[a] = eeprom[a]
               /\ \A other \in WLDataType \ {dt} :
                    /\ currentSlot'[other] = currentSlot[other]
                    /\ nextSequence'[other] = nextSequence[other]]_vars

\* C29 witness: the first write after 65534 writes of each type was a write
\* of the power-cycle count to its last slot, cells 150 .. 155, and the
\* last slot written of the time format and its nextSequence are as before.
C29_Witness ==
  /\ lastOp.op = "writePowerCycleCount"
  /\ lastOp.slot = WL_NUM_SLOTS - 1
  /\ hist.steps = 1
  /\ readSlot(eeprom, WL_POWER_CYCLE, lastOp.slot).data = lastOp.arg
  /\ eeprom[155] = ValueBytes(WL_POWER_CYCLE, lastOp.arg)[WL_POWER_CYCLE_DATA_SIZE]
  /\ hist.nWrites[WL_TIME_FORMAT] = LAST_SEQUENCE
  /\ readSlotSequence(eeprom, WL_TIME_FORMAT, WL_NUM_SLOTS - 2) = LAST_SEQUENCE
  /\ nextSequence[WL_TIME_FORMAT] = 1
  /\ currentSlot[WL_TIME_FORMAT] = WL_NUM_SLOTS - 2

\* C30: a read returns the default 0 when the payload of the slot the scan
\* selects is not valid for the type, whatever the other slots hold, and
\* what a read returns is the default or the payload of the selected slot.
C30_NoFallback ==
  \A dt \in WLDataType :
    WasReadCall(lastOp, dt) =>
      LET selected == findLatestSlot(eeprom, dt)
          payload == StoredPayload(eeprom, dt, selected)
      IN  /\ ~ValidValue(dt, payload) => lastOp.ret = DefaultValue(dt)
          /\ lastOp.ret \in {DefaultValue(dt), payload}

\* C30 witness: a read of the format returned 0 when the selected slot, the
\* last one, held a valid sequence number and the format 2, and the slot
\* before it held a valid sequence number and the format 1.
C30_Witness ==
  /\ WasReadCall(lastOp, WL_TIME_FORMAT)
  /\ findLatestSlot(eeprom, WL_TIME_FORMAT) = WL_NUM_SLOTS - 1
  /\ WL_NUM_SLOTS - 1 \in ValidSlots(eeprom, WL_TIME_FORMAT)
  /\ StoredPayload(eeprom, WL_TIME_FORMAT, WL_NUM_SLOTS - 1) = 2
  /\ WL_NUM_SLOTS - 2 \in OtherGoodSlots(eeprom, WL_TIME_FORMAT, WL_NUM_SLOTS - 1)
  /\ lastOp.ret = 0

\* C31: a call of update() when the GPS object reports the location or the
\* altitude as not valid leaves the three buffers, currentIndex and
\* totalReadings as they were; a call that changes any of them was made with
\* both valid, and it stored the reported latitude, longitude and altitude
\* at currentIndex of the three buffers and changed no other cell.
C31_UpdateRejectsInvalid ==
  [][filterOp'.op = "update" =>
       IF ~gpsModule.locationValid \/ ~gpsModule.altitudeValid
         THEN /\ latReadings' = latReadings
              /\ lonReadings' = lonReadings
              /\ altReadings' = altReadings
              /\ currentIndex' = currentIndex
              /\ totalReadings' = totalReadings
         ELSE /\ latReadings' = [latReadings EXCEPT ![currentIndex] = gpsModule.lat]
              /\ lonReadings' = [lonReadings EXCEPT ![currentIndex] = gpsModule.lng]
              /\ altReadings' = [altReadings EXCEPT ![currentIndex] = gpsModule.feet]
              /\ currentIndex' # currentIndex]_vars

\* C31 witness: update() returned without storing when the location was
\* valid and the altitude was not, after samples had been stored and with a
\* sample reported that is not the one stored last.
C31_Witness ==
  /\ filterOp.op = "update"
  /\ filterOp.ret = FALSE
  /\ gpsModule.locationValid
  /\ ~gpsModule.altitudeValid
  /\ totalReadings >= GPS_FILTER_MIN_READINGS
  /\ fhist.pending
  /\ latReadings[(currentIndex + GPS_FILTER_WINDOW_SIZE - 1) % GPS_FILTER_WINDOW_SIZE]
       # gpsModule.lat

\* C32: a call of one of the three getFiltered functions leaves the three
\* buffers, currentIndex and totalReadings as they were; the same call made
\* again right after it returns the same value, and the results of the
\* getFiltered functions of the other channels are what they were before
\* the call.
C32_GetFilteredIsPure ==
  [][\A ch \in Channels :
       filterOp'.op = ChannelCall(ch) =>
         /\ latReadings' = latReadings
         /\ lonReadings' = lonReadings
         /\ altReadings' = altReadings
         /\ currentIndex' = currentIndex
         /\ totalReadings' = totalReadings
         /\ FloatEq(ChannelResultOf(ch, latReadings', lonReadings', altReadings',
                                    totalReadings', gpsModule'), filterOp'.ret)
         /\ \A other \in Channels :
              FloatEq(ChannelResultOf(other, latReadings', lonReadings', altReadings',
                                      totalReadings', gpsModule'),
                      ChannelResultOf(other, latReadings, lonReadings, altReadings,
                                      totalReadings, gpsModule))]_vars

\* C32 witness: getFilteredLongitude was called on the filtering path with
\* the window full and its buffered samples not in ascending order.
C32_Witness ==
  /\ CalledFiltered("lng")
  /\ totalReadings = GPS_FILTER_WINDOW_SIZE
  /\ gpsModule.locationValid
  /\ ~IsAscending(Buffered("lng"))
  /\ FloatEq(filterOp.ret, ChannelResult("lng"))

\* C33 as stated: on the filtering path the result of a getFiltered function
\* lies between the least and the greatest buffered sample of its channel,
\* count * min <= sum <= count * max for the sum and the count of the
\* samples averaged, and the result is v when all buffered samples are v.
C33_BoundedByData ==
  \A ch \in Channels :
    (CalledFiltered(ch) /\ ~TakesRawPath(totalReadings, ChannelValid(ch)))
      => LET result == FloatQuotient(filterOp.ret)
             sum == filterOp.ret[1]
             count == filterOp.ret[2]
         IN  /\ FloatAtLeast(result, MinBuffered(ch))
             /\ FloatAtMost(result, MaxBuffered(ch))
             /\ count * MinBuffered(ch) <= sum
             /\ sum <= count * MaxBuffered(ch)
             /\ MinBuffered(ch) = MaxBuffered(ch)
                  => FloatEq(result, Float(MinBuffered(ch), 1))

\* C33 amended: on the filtering path the result lies between min - e and
\* max + e, where e is 2^-20 of the largest magnitude of the buffered
\* samples; when the float sum of the samples averaged is their exact sum,
\* the result lies between min and max, count * min <= sum <= count * max,
\* and the result is v when all buffered samples are v.
C33_BoundedUpToRounding ==
  \A ch \in Channels :
    (CalledFiltered(ch) /\ ~TakesRawPath(totalReadings, ChannelValid(ch)))
      => LET result == FloatQuotient(filterOp.ret)
             sum == filterOp.ret[1]
             count == filterOp.ret[2]
             e == MaxMagnitude(ch) \div 1048576
         IN  /\ FloatAtLeast(result, MinBuffered(ch) - e)
             /\ FloatAtMost(result, MaxBuffered(ch) + e)
             /\ sum = ExactSum(ch)
                  => /\ FloatAtLeast(result, MinBuffered(ch))
                     /\ FloatAtMost(result, MaxBuffered(ch))
                     /\ count * MinBuffered(ch) <= sum
                     /\ sum <= count * MaxBuffered(ch)
                     /\ MinBuffered(ch) = MaxBuffered(ch)
                          => FloatEq(result, Float(MinBuffered(ch), 1))

\* C33 witness: getFilteredLatitude() was called on five equal latitudes
\* with a full significand; the float sum is not five times the latitude,
\* and the result is the next float above it.
C33_Witness ==
  /\ CalledFiltered("lat")
  /\ gpsModule.locationValid
  /\ totalReadings = 5
  /\ MinBuffered("lat") = FullSignificand
  /\ MaxBuffered("lat") = FullSignificand
  /\ filterOp.ret[1] # 5 * FullSignificand
  /\ FloatEq(FloatQuotient(filterOp.ret), Float(FullSignificand + 1, 1))

C35_DetectionTerminates ==
  /\ [](/\ currentBaudRateIndex <= GPS_BAUD_RATES_COUNT
        /\ (baudTestStarted /\ ~gpsBaudDetectionComplete)
             => /\ currentBaudRateIndex < GPS_BAUD_RATES_COUNT
                /\ currentGpsBaudRate = GPS_BAUD_RATES[currentBaudRateIndex + 1])
  /\ [][/\ pc' = "running" => currentBaudRateIndex' >= currentBaudRateIndex
        /\ (gpsBaudDetectionComplete /\ pc' # "off")
             => /\ gpsBaudDetectionComplete'
                /\ currentGpsBaudRate' = currentGpsBaudRate
        /\ SavedBaudRate(eeprom') # SavedBaudRate(eeprom)
             => /\ validGpsSentencesCount' >= GPS_MIN_VALID_SENTENCES
                /\ currentGpsBaudRate' = currentGpsBaudRate
                /\ SavedBaudRate(eeprom') = U32(currentGpsBaudRate)
        /\ (pc = "running" /\ ~gpsBaudDetectionComplete /\ gpsBaudDetectionComplete'
               /\ validGpsSentencesCount' < GPS_MIN_VALID_SENTENCES)
             => /\ currentBaudRateIndex' = GPS_BAUD_RATES_COUNT
                /\ currentGpsBaudRate' = DEFAULT_GPS_BAUD_RATE
                /\ eeprom' = eeprom]_vars
  /\ (pc = "running") ~> (gpsBaudDetectionComplete \/ pc = "off")

\* C35 witness: on erased EEPROM the detection has tested every rate, has
\* counted fewer valid sentences than it needs at the last one, and is
\* complete at 115200 with nothing saved.
C35_Witness ==
  /\ pc = "running"
  /\ gpsBaudDetectionComplete
  /\ currentBaudRateIndex = GPS_BAUD_RATES_COUNT
  /\ currentGpsBaudRate = DEFAULT_GPS_BAUD_RATE
  /\ validGpsSentencesCount = GPS_MIN_VALID_SENTENCES - 1
  /\ SavedBaudRate(eeprom) = <<UINT16_MOD - 1, UINT16_MOD - 1>>

\* C36: a boot with a rate of GPS_BAUD_RATES saved in the EEPROM, 115200
\* included, sets currentGpsBaudRate to that rate and marks the detection
\* complete, and no step of that session changes the rate or starts a test.
C36_SavedRateReused ==
  [][/\ (pc = "off" /\ pc' = "startup")
        => \A i \in 1 .. GPS_BAUD_RATES_COUNT :
             SavedBaudRate(eeprom) = U32(GPS_BAUD_RATES[i])
               => /\ currentGpsBaudRate' = GPS_BAUD_RATES[i]
                  /\ gpsBaudDetectionComplete'
     /\ (pc # "off" /\ pc' # "off" /\ gpsBaudDetectionComplete)
        => /\ gpsBaudDetectionComplete'
           /\ baudTestStarted' = baudTestStarted
           /\ currentBaudRateIndex' = currentBaudRateIndex
           /\ currentGpsBaudRate' = currentGpsBaudRate]_vars

\* C37: a call of initialize() on a rain effect that is already initialized
\* leaves lastRaindropSpawnTime, every raindrop, every ground flash and the
\* initialized flag as they were.
C37_InitializeIdempotent ==
  [][(isInitializedFlag /\ rainCall' = "initialize")
       => UNCHANGED <<lastRaindropSpawnTime, raindropArray, groundFlashArray,
                      isInitializedFlag>>]_vars

=============================================================================
